---- MODULE Spec2Model ----
(***************************************************************************)
(* Model of the FRATEMIX deck engine (src/src/hooks/useDeckAudio.js, first *)
(* definition of useDeckAudio, lines 25-859).                              *)
(*                                                                         *)
(* Time.  The backend clock advances in whole ticks (action Tick).  Track  *)
(* offsets and durations are counted in hundredths of a tick, so that the  *)
(* playback rate 1 + pitchValue/100 is the integer 100 + pitchValue        *)
(* hundredths of track per tick.  elapsed[d] is the number of ticks since  *)
(* the deck's anchor, i.e. audioContext.currentTime - loopStartTimeRef.    *)
(***************************************************************************)
EXTENDS Integers, Sequences, FiniteSets, TLC

\* ---------------------------------------------------------------- bounds
MaxElapsed == 2
MaxOffset == 400
MaxLoads == 2
MaxEnded == 1

\* -------------------------------------------------------------- constants
Scale == 100
InitialBPM == 128
DefaultLoopLength == 1
KillGain == -100
UnityGain == 10000
InitialCrossfader == 50
InitialGain == 100

Decks == {"A", "B"}
\* the decks the transport specification operates
OpDecks == {"A"}

NoTrack == "none"
Tracks == {"t1", "t2"}
BadFile == "bad"
Files == Tracks \cup {BadFile}

\* audioBuffer.duration of each decodable file, in hundredths of a tick
TrackDuration(t) ==
  CASE t = "t1" -> 200 [] t = "t2" -> 100 [] t = "t3" -> 1000 [] t = "t0" -> 100 [] OTHER -> 0

\* the value detectBPMAsync resolves to for each decodable file
DetectedBPM(t) ==
  CASE t = "t1" -> 60 [] t = "t2" -> 120 [] t = "t3" -> 120 [] OTHER -> InitialBPM

\* the list detectPeaks returns for each decodable file
TrackPeaks(t) ==
  CASE t = "t1" -> <<50, 150>> [] t = "t2" -> <<30>> [] t = "t3" -> <<100, 450, 900>>
    [] OTHER -> <<>>

PitchValues == {-8, 0, 8}
\* arguments a caller of the exported setPitchValue can pass
PitchArgs == {-20, 0, 20}
SeekTimes == {-50, 10, 999}
\* the values a manual BPM correction sets
BpmValues == {60, 128}
\* the tracks loaded on decks A and B, and the seek target, of the two-deck sync specification
SyncTracks == {<<"t3", "t1">>, <<"t3", "t3">>, <<"t0", "t3">>}
SyncSeekTimes == {500}

\* the snapshot loadDeckState() returns at mount: null or a saved record
NoSaved == [isLoaded |-> FALSE, bpm |-> 0, loopEnabled |-> FALSE, loopStart |-> 0, loopLength |-> 0]
SavedStates == {NoSaved, [isLoaded |-> TRUE, bpm |-> 120, loopEnabled |-> FALSE, loopStart |-> 0, loopLength |-> 4]}

Min(a, b) == IF a < b THEN a ELSE b
Max(a, b) == IF a > b THEN a ELSE b
\* Math.max(0, Math.min(x, hi))
Clamp(x, hi) == Max(0, Min(x, hi))
\* a || b on numbers
OrElse(a, b) == IF a = 0 THEN b ELSE a

\* playbackRate = 1.0 + pitchValue / 100, times Scale
Rate(p) == Scale + p

VARIABLES
  audioContext,   \* audioContextRef.current # null
  audioBuffer,    \* audioBufferRef.current: the decoded track or NoTrack
  isLoaded,       \* React state isLoaded
  isPlaying,      \* React state isPlaying and isPlayingRef.current
  startOffset,    \* startOffsetRef.current
  elapsed,        \* audioContext.currentTime - loopStartTimeRef.current, in ticks
  sourceNode,     \* sourceNodeRef.current
  timers,         \* the setTimeout callbacks still pending
  loopTimeout,    \* loopTimeoutRef.current: a timer id, 0 for null
  endedQ,         \* ended events the backend has queued and not yet dispatched
  sounding,       \* how many sources of the deck are started and neither stopped nor run out
  pitchValue,     \* React state pitchValue
  bpm,            \* React state bpm
  loopEnabled,    \* React state loopEnabled and loopEnabledRef.current
  loopStart,      \* React state loopStart
  loopLength,     \* React state loopLength
  peaks,          \* peaksRef.current
  loads,          \* loadAudioFile calls in flight, oldest first (wasLive: issued on a Live deck)
  lastLoad,       \* the file of the most recently issued loadAudioFile call
  alertShown,     \* a modal alert() is open
  currentTime,    \* React state currentTime (the displayed position)
  syncEnabled,    \* the App's single sync flag, passed to both decks
  syncFlag,       \* the App's per-deck sync flags syncEnabledA / syncEnabledB
  syncSeen,       \* the per-deck flags as the toggle handlers' closures captured them
  eqValue,        \* React state eqLow / eqMid / eqHigh, in dB
  eqKill,         \* React state eqLowKill / eqMidKill / eqHighKill
  eqNode,         \* gain.value of the three EQ BiquadFilter nodes, NoNode before they exist
  filterValue,    \* React state filterValue, in hundredths
  filterNode,     \* type and frequency of the filter node, NoNode before it exists
  crossfader,     \* the crossfader position, in hundredths
  crossfaderGain, \* React state crossfaderGain, in ten-thousandths
  crossfaderNode, \* gain.value of the crossfader gain node, NoNode before it exists
  buffer,         \* the AudioBuffer handed to detectBPM, as the analysis sees it
  estimate,       \* what detectBPM resolved to, in tenths of a BPM, NoEstimate before
  tapTimes,       \* TapTempo state tapTimes of each deck, in ms since its first tap
  calculatedBPM,  \* TapTempo state calculatedBPM of each deck, NoBPM for null
  storage,        \* localStorage entry fratemix_deck_<id>: the saved snapshot, NoSnapshot if none
  gain,           \* React state gain, in hundredths
  lastOp          \* the last operation that ran on a deck that was not Stopped, or any user call

vars == <<audioContext, audioBuffer, isLoaded, isPlaying, startOffset, elapsed,
          sourceNode, timers, loopTimeout, endedQ, sounding, pitchValue, bpm, loopEnabled,
          loopStart, loopLength, peaks, loads, lastLoad, alertShown,
          currentTime, syncEnabled, syncFlag, syncSeen, eqValue, eqKill, eqNode,
          filterValue, filterNode, crossfader, crossfaderGain, crossfaderNode,
          buffer, estimate, tapTimes, calculatedBPM, storage, gain, lastOp>>

\* the state of the tempo estimator and of the TapTempo components
toolVars == <<buffer, estimate, tapTimes, calculatedBPM>>

\* the deck's volume and what the persistence hook has written
persistVars == <<storage, gain>>

\* the three EQ bands
Bands == {"low", "mid", "high"}

\* loadFromStorage(storageKey, null) when nothing was saved
NoSnapshot == << >>

\* the record a mount that found the snapshot s was saved from: the file t1,
\* untouched controls, the position 0
SnapshotOf(s) ==
  <<[gain |-> InitialGain, eq |-> [b \in Bands |-> 0], eqKill |-> [b \in Bands |-> FALSE],
     filterValue |-> 0, bpm |-> s.bpm, currentTime |-> 0, duration |-> TrackDuration("t1"),
     loopEnabled |-> s.loopEnabled, loopStart |-> s.loopStart, loopLength |-> s.loopLength,
     fileName |-> "t1", isLoaded |-> s.isLoaded]>>

\* nothing saved, the volume at its default
PersistFresh ==
  /\ storage = [d \in Decks |-> NoSnapshot]
  /\ gain = [d \in Decks |-> InitialGain]

\* the gain an EQ band's node is given
EqGain(kill, db) == IF kill THEN KillGain ELSE db

\* the values a createAndStartSource closure captured at render time
Cap(d) == [pitchValue |-> pitchValue[d], bpm |-> bpm[d],
           loopStart |-> loopStart[d], loopLength |-> loopLength[d],
           eqValue |-> eqValue[d], eqKill |-> eqKill[d]]
NoCap == [pitchValue |-> 0, bpm |-> 0, loopStart |-> 0, loopLength |-> 0,
          eqValue |-> [b \in Bands |-> 0], eqKill |-> [b \in Bands |-> FALSE]]

NoSource == [id |-> 0, rate |-> 0, pos |-> 0, playing |-> FALSE, buf |-> NoTrack,
             loopHandler |-> FALSE, cap |-> NoCap]

\* the ended event of source s; natural: the buffer ran out (not stop())
EndedEvent(s, natural) == [id |-> s.id, loopHandler |-> s.loopHandler, cap |-> s.cap,
                           natural |-> natural]

\* the refs one handler run reads and writes, threaded through its statements
Refs(d) == [src |-> sourceNode[d], timers |-> timers[d], ref |-> loopTimeout[d],
            ended |-> endedQ[d], startOffset |-> startOffset[d], elapsed |-> elapsed[d],
            eq |-> eqNode[d], out |-> sounding[d]]

\* a stop() that leaves the source sounding
StopSourceSkipped(r) == r

\* sourceNodeRef.current.stop(): a source still playing stops and its ended event is queued
StopSource(r) ==
  IF r.src.id # 0 /\ r.src.playing
    THEN [r EXCEPT !.src.playing = FALSE, !.ended = @ \cup {EndedEvent(r.src, FALSE)},
                   !.out = @ - 1]
    ELSE r

\* forgetting the timer id without cancelling the timer
ClearLoopTimeoutKeepsTimer(r) == IF r.ref # 0 THEN [r EXCEPT !.ref = 0] ELSE r

\* if (loopTimeoutRef.current) { clearTimeout(...); loopTimeoutRef.current = null }
ClearLoopTimeout(r) ==
  IF r.ref # 0
    THEN [r EXCEPT !.timers = {t \in @ : t.id # r.ref}, !.ref = 0]
    ELSE r

FreshSourceId(r) ==
  CHOOSE n \in 1..(Cardinality(r.ended) + 2) :
    /\ n # r.src.id
    /\ \A e \in r.ended : e.id # n
    /\ \A m \in 1..(n - 1) : m = r.src.id \/ \E e \in r.ended : e.id = m

FreshTimerId(r) ==
  CHOOSE n \in 1..(Cardinality(r.timers) + 2) :
    /\ n # r.ref
    /\ \A t \in r.timers : t.id # n
    /\ \A m \in 1..(n - 1) : m = r.ref \/ \E t \in r.timers : t.id = m

\* actualLoopDuration * bpm, in hundredths of a tick times bpm (60 s = 60 * Scale)
LoopDurationBpm(cap, dur) ==
  Min(cap.loopStart * cap.bpm + cap.loopLength * 60 * Scale, dur * cap.bpm)
    - cap.loopStart * cap.bpm

\* (actualLoopDuration - (offset % actualLoopDuration)) * bpm
RemainingBpm(offset, cap, dur) ==
  LoopDurationBpm(cap, dur) - ((offset * cap.bpm) % LoopDurationBpm(cap, dur))

\* setTimeout(..., remainingTime * 1000) has run out after el ticks, where
\* remainingTime = Remaining / playbackRate = (num / bpm) / (den / bpm)
TimerDue(t, el) == el * t.den >= t.num

\* createAndStartSource(offset) of the closure that captured cap
CreateAndStartSource(d, offset, cap, r) ==
  IF audioBuffer[d] = NoTrack \/ ~audioContext[d] THEN r
  ELSE
    LET r1 == ClearLoopTimeout(StopSource(r))
        dur == TrackDuration(audioBuffer[d])
        inLoop == loopEnabled[d] /\ cap.loopStart >= 0 /\ cap.loopStart < dur
        startPos == IF inLoop THEN Clamp(cap.loopStart + offset, dur) ELSE Clamp(offset, dur)
        src == [id |-> FreshSourceId(r1), rate |-> Rate(cap.pitchValue), pos |-> startPos,
                playing |-> startPos < dur, buf |-> audioBuffer[d],
                loopHandler |-> inLoop, cap |-> IF inLoop THEN cap ELSE NoCap]
        tid == FreshTimerId(r1)
        timer == [id |-> tid, num |-> RemainingBpm(offset, cap, dur),
                  den |-> Rate(cap.pitchValue) * cap.bpm, cap |-> cap]
    IN [src |-> src,
        timers |-> IF inLoop THEN r1.timers \cup {timer} ELSE r1.timers,
        ref |-> IF inLoop THEN tid ELSE r1.ref,
        ended |-> IF startPos < dur THEN r1.ended ELSE r1.ended \cup {EndedEvent(src, TRUE)},
        startOffset |-> offset,
        elapsed |-> 0,
        eq |-> IF r1.eq = << >> THEN r1.eq
               ELSE <<[b \in Bands |-> EqGain(cap.eqKill[b], cap.eqValue[b])]>>,
        out |-> IF startPos < dur THEN r1.out + 1 ELSE r1.out]

\* writing the refs back with one loopTimeoutRef shared by the decks
CommitShared(d, r) ==
  /\ sourceNode' = [sourceNode EXCEPT ![d] = r.src]
  /\ timers' = [timers EXCEPT ![d] = r.timers]
  /\ loopTimeout' = [x \in Decks |-> r.ref]
  /\ endedQ' = [endedQ EXCEPT ![d] = r.ended]
  /\ sounding' = [sounding EXCEPT ![d] = r.out]
  /\ startOffset' = [startOffset EXCEPT ![d] = r.startOffset]
  /\ eqNode' = [eqNode EXCEPT ![d] = r.eq]
  /\ elapsed' = [elapsed EXCEPT ![d] = r.elapsed]

\* write the refs back
Commit(d, r) ==
  /\ sourceNode' = [sourceNode EXCEPT ![d] = r.src]
  /\ timers' = [timers EXCEPT ![d] = r.timers]
  /\ loopTimeout' = [loopTimeout EXCEPT ![d] = r.ref]
  /\ endedQ' = [endedQ EXCEPT ![d] = r.ended]
  /\ sounding' = [sounding EXCEPT ![d] = r.out]
  /\ startOffset' = [startOffset EXCEPT ![d] = r.startOffset]
  /\ eqNode' = [eqNode EXCEPT ![d] = r.eq]
  /\ elapsed' = [elapsed EXCEPT ![d] = r.elapsed]

\* ------------------------------------------------------------ peak sync
Other(d) == IF d = "A" THEN "B" ELSE "A"

\* findNearestPeak returns null
NoPeak == -1

Abs(x) == IF x < 0 THEN -x ELSE x

\* a comparison that lets an equally near later peak replace the nearest so far
NearerOrEqual(distance, minDistance) == distance <= minDistance

\* if (distance < minDistance)
Nearer(distance, minDistance) == distance < minDistance

\* the for loop of findNearestPeak from index i on, with the nearest so far
RECURSIVE NearestFrom(_, _, _, _, _)
NearestFrom(ps, i, targetTime, nearestPeak, minDistance) ==
  IF i > Len(ps) THEN nearestPeak
  ELSE IF Nearer(Abs(ps[i] - targetTime), minDistance)
         THEN NearestFrom(ps, i + 1, targetTime, ps[i], Abs(ps[i] - targetTime))
         ELSE NearestFrom(ps, i + 1, targetTime, nearestPeak, minDistance)

FindNearestPeak(targetTime, ps) ==
  IF ps = <<>> THEN NoPeak
  ELSE NearestFrom(ps, 1, targetTime, ps[1], Abs(ps[1] - targetTime))

\* play(otherDeck) takes the sync branch: the flag, and the other deck as rendered
SyncBranch(d) == syncEnabled /\ isPlaying[Other(d)] /\ peaks[Other(d)] # <<>>

\* targetPeak: the peak of this deck nearest to otherDeck.currentTime
SyncTarget(d) ==
  IF SyncBranch(d) THEN FindNearestPeak(currentTime[Other(d)], peaks[d]) ELSE NoPeak

\* the offset play() starts from
PlayOffset(d) == IF SyncTarget(d) # NoPeak THEN SyncTarget(d) ELSE startOffset[d]

\* ------------------------------------------------------------ mixer nodes
\* a node reference is <<>> before initAudioContext and <<node>> after it
NoNode == <<>>
EqValues == {0, 6}
FilterValues == {-50, 0, 50}
CrossfaderValues == {0, 50, 100}

\* the EQ nodes initAudioContext creates
NewEqNode(d) == [b \in Bands |-> EqGain(eqKill[d][b], eqValue[d][b])]

\* the filter node initAudioContext creates: lowpass at 20000 Hz (in hundredths of Hz)
NewFilterNode == [type |-> "lowpass", freq |-> 2000000]

\* 20 + |filterValue| * 1980 and 20000 - filterValue * 19980, in hundredths of Hz
HighPassCutoff(v) == 2000 + Abs(v) * 1980
LowPassCutoff(v) == 2000000 - v * 19980

\* the filter effect on [filterValue]
FilterEffect(node, v) ==
  IF node = NoNode THEN node
  ELSE IF v = 0 THEN <<[node[1] EXCEPT !.freq = 2000000]>>
  ELSE IF v < 0 THEN <<[type |-> "highpass", freq |-> HighPassCutoff(v)]>>
  ELSE <<[type |-> "lowpass", freq |-> LowPassCutoff(v)]>>

\* Math.cos(c * PI / 2) and Math.sin(c * PI / 2), in ten-thousandths, c in hundredths
CosHalfPi(c) ==
  CASE c = 0 -> 10000 [] c = 25 -> 9239 [] c = 50 -> 7071 [] c = 75 -> 3827 [] c = 100 -> 0
SinHalfPi(c) ==
  CASE c = 0 -> 0 [] c = 25 -> 3827 [] c = 50 -> 7071 [] c = 75 -> 9239 [] c = 100 -> 10000

\* the two curves handed to the wrong decks
CrossfadeCurveSwapped(d, c) == IF d = "A" THEN SinHalfPi(c) ELSE CosHalfPi(c)

\* curveA for deck A, curveB for deck B
CrossfadeCurve(d, c) == IF d = "A" THEN CosHalfPi(c) ELSE SinHalfPi(c)

\* the Mixer effect after a render: setCrossfaderGain(curve) reaches the node if it exists
MixerEffect ==
  crossfaderNode' = [d \in Decks |->
    IF crossfaderNode[d] = NoNode THEN NoNode ELSE <<CrossfadeCurve(d, crossfader)>>]

\* the nodes initAudioContext creates when the deck has no AudioContext yet
InitAudioContext(d) ==
  IF audioContext[d]
    THEN UNCHANGED <<eqNode, filterNode, crossfaderNode>>
    ELSE /\ eqNode' = [eqNode EXCEPT ![d] = <<NewEqNode(d)>>]
         /\ filterNode' = [filterNode EXCEPT ![d] = <<NewFilterNode>>]
         /\ crossfaderNode' = [crossfaderNode EXCEPT ![d] = <<UnityGain>>]

ctlVars == <<eqValue, eqKill, filterValue, crossfader, crossfaderGain>>
nodeVars == <<eqNode, filterNode>>
appVars == <<syncEnabled, syncFlag, syncSeen>>
\* what a deck handler that causes no render leaves alone, and one that does
unrenderedVars == <<ctlVars, nodeVars, crossfaderNode, appVars, currentTime>>
renderedVars == <<ctlVars, nodeVars, appVars, currentTime>>

\* the deck is Playing and the source it refers to is still sounding
Live(d) == isPlaying[d] /\ sourceNode[d].playing

\* an operation on deck d, and whether it found the deck Live
Op(name, d) == [op |-> name, deck |-> d, live |-> Live(d)]
NoOp(name) == [op |-> name, deck |-> "-", live |-> FALSE]

\* no buffer is under analysis, no analysis has finished and nobody has tapped
NoBuffer == << >>
NoEstimate == -1
NoBPM == 0
ToolsIdle ==
  /\ buffer = NoBuffer
  /\ estimate = NoEstimate
  /\ tapTimes = [d \in Decks |-> <<>>]
  /\ calculatedBPM = [d \in Decks |-> NoBPM]

\* the controls and nodes of a fresh mount: no snapshot of the controls, no
\* AudioContext, and the Mixer's mount effect has stored the crossfade curves
MixerMounted ==
  /\ eqValue = [d \in Decks |-> [b \in Bands |-> 0]]
  /\ eqKill = [d \in Decks |-> [b \in Bands |-> FALSE]]
  /\ eqNode = [d \in Decks |-> NoNode]
  /\ filterValue = [d \in Decks |-> 0]
  /\ filterNode = [d \in Decks |-> NoNode]
  /\ crossfader = InitialCrossfader
  /\ crossfaderGain = [d \in Decks |-> CrossfadeCurve(d, InitialCrossfader)]
  /\ crossfaderNode = [d \in Decks |-> NoNode]

Init ==
  /\ \E s \in SavedStates :
       /\ isLoaded = [d \in Decks |-> IF d \in OpDecks THEN s.isLoaded ELSE FALSE]
       /\ bpm = [d \in Decks |-> IF d \in OpDecks THEN OrElse(s.bpm, InitialBPM) ELSE InitialBPM]
       /\ loopEnabled = [d \in Decks |-> IF d \in OpDecks THEN s.loopEnabled ELSE FALSE]
       /\ loopStart = [d \in Decks |-> IF d \in OpDecks THEN s.loopStart ELSE 0]
       /\ loopLength = [d \in Decks |->
            IF d \in OpDecks THEN OrElse(s.loopLength, DefaultLoopLength) ELSE DefaultLoopLength]
       /\ storage = [d \in Decks |->
            IF d \in OpDecks /\ s # NoSaved THEN SnapshotOf(s) ELSE NoSnapshot]
  /\ gain = [d \in Decks |-> InitialGain]
  /\ audioContext = [d \in Decks |-> FALSE]
  /\ audioBuffer = [d \in Decks |-> NoTrack]
  /\ isPlaying = [d \in Decks |-> FALSE]
  /\ startOffset = [d \in Decks |-> 0]
  /\ elapsed = [d \in Decks |-> 0]
  /\ sourceNode = [d \in Decks |-> NoSource]
  /\ timers = [d \in Decks |-> {}]
  /\ loopTimeout = [d \in Decks |-> 0]
  /\ endedQ = [d \in Decks |-> {}]
  /\ sounding = [d \in Decks |-> 0]
  /\ pitchValue = [d \in Decks |-> 0]
  /\ peaks = [d \in Decks |-> <<>>]
  /\ loads = [d \in Decks |-> <<>>]
  /\ lastLoad = [d \in Decks |-> NoTrack]
  /\ alertShown = FALSE
  /\ currentTime = [d \in Decks |-> 0]
  /\ MixerMounted
  /\ syncEnabled = FALSE
  /\ syncFlag = [d \in Decks |-> FALSE]
  /\ syncSeen = [d \in Decks |-> FALSE]
  /\ ToolsIdle
  /\ lastOp = NoOp("init")

refVars == <<sourceNode, timers, loopTimeout, endedQ, sounding, startOffset, elapsed>>
cfgVars == <<pitchValue, bpm, loopEnabled, loopStart, loopLength>>
loadVars == <<audioContext, audioBuffer, isLoaded, peaks, loads, lastLoad>>

RemoveAt(s, i) == [k \in 1..(Len(s) - 1) |-> IF k < i THEN s[k] ELSE s[k + 1]]

\* room for the ended event the handler's stop() may queue
EndedRoom(d) == Cardinality(endedQ[d]) < MaxEnded

\* ------------------------------------------------------------ loadAudioFile
\* the call: initAudioContext(), then the read and decode are awaited
LoadAudioFile(d, f) ==
  /\ ~alertShown
  /\ Len(loads[d]) < MaxLoads
  /\ audioContext' = [audioContext EXCEPT ![d] = TRUE]
  /\ loads' = [loads EXCEPT ![d] = Append(@, [file |-> f, phase |-> "decode", wasLive |-> Live(d)])]
  /\ lastLoad' = [lastLoad EXCEPT ![d] = f]
  /\ UNCHANGED <<toolVars, persistVars>>
  /\ lastOp' = Op("load", d)
  /\ InitAudioContext(d)
  /\ UNCHANGED <<audioBuffer, isLoaded, peaks, isPlaying, alertShown, refVars, cfgVars>>
  /\ UNCHANGED <<ctlVars, appVars, currentTime>>

\* decodeAudioData resolved: the buffer is stored, detectBPMAsync is awaited
DecodeOk(d, i) ==
  /\ ~alertShown
  /\ i \in 1..Len(loads[d])
  /\ loads[d][i].phase = "decode"
  /\ loads[d][i].file \in Tracks
  /\ audioBuffer' = [audioBuffer EXCEPT ![d] = loads[d][i].file]
  /\ isLoaded' = [isLoaded EXCEPT ![d] = TRUE]
  /\ loads' = [loads EXCEPT ![d][i].phase = "analyse"]
  /\ UNCHANGED <<toolVars, persistVars>>
  /\ lastOp' = Op("decodeOk", d)
  /\ MixerEffect
  /\ UNCHANGED <<audioContext, peaks, lastLoad, isPlaying, alertShown, refVars, cfgVars>>
  /\ UNCHANGED renderedVars

\* a failure handler that marks the deck loaded although nothing was decoded
DecodeFailMarksLoaded(d, i) ==
  /\ ~alertShown
  /\ i \in 1..Len(loads[d])
  /\ loads[d][i].phase = "decode"
  /\ loads[d][i].file = BadFile
  /\ loads' = [loads EXCEPT ![d] = RemoveAt(@, i)]
  /\ alertShown' = TRUE
  /\ isLoaded' = [isLoaded EXCEPT ![d] = TRUE]
  /\ UNCHANGED <<toolVars, persistVars>>
  /\ lastOp' = Op("decodeFail", d)
  /\ UNCHANGED <<audioContext, audioBuffer, peaks, lastLoad, isPlaying, refVars, cfgVars>>
  /\ UNCHANGED unrenderedVars

\* arrayBuffer() or decodeAudioData rejected: the catch block alerts
DecodeFail(d, i) ==
  /\ ~alertShown
  /\ i \in 1..Len(loads[d])
  /\ loads[d][i].phase = "decode"
  /\ loads[d][i].file = BadFile
  /\ loads' = [loads EXCEPT ![d] = RemoveAt(@, i)]
  /\ alertShown' = TRUE
  /\ UNCHANGED <<toolVars, persistVars>>
  /\ lastOp' = Op("decodeFail", d)
  /\ UNCHANGED <<audioContext, audioBuffer, isLoaded, peaks, lastLoad, isPlaying, refVars, cfgVars>>
  /\ UNCHANGED unrenderedVars

\* detectBPMAsync resolved: bpm, peaks of this load's buffer, offset reset
AnalysisDone(d, i) ==
  /\ ~alertShown
  /\ i \in 1..Len(loads[d])
  /\ loads[d][i].phase = "analyse"
  /\ bpm' = [bpm EXCEPT ![d] = DetectedBPM(loads[d][i].file)]
  /\ peaks' = [peaks EXCEPT ![d] = TrackPeaks(loads[d][i].file)]
  /\ startOffset' = [startOffset EXCEPT ![d] = 0]
  /\ loads' = [loads EXCEPT ![d] = RemoveAt(@, i)]
  /\ UNCHANGED <<toolVars, persistVars>>
  /\ lastOp' = Op("analysisDone", d)
  /\ UNCHANGED <<audioContext, audioBuffer, isLoaded, lastLoad, isPlaying, alertShown,
                 sourceNode, timers, loopTimeout, endedQ, sounding, elapsed,
                 pitchValue, loopEnabled, loopStart, loopLength>>
  /\ MixerEffect
  /\ UNCHANGED renderedVars

\* the user closes the modal alert
AlertDismiss ==
  /\ alertShown
  /\ alertShown' = FALSE
  /\ UNCHANGED <<toolVars, persistVars>>
  /\ lastOp' = NoOp("alertDismiss")
  /\ UNCHANGED <<isPlaying, refVars, cfgVars, loadVars>>
  /\ UNCHANGED unrenderedVars

\* --------------------------------------------------------------- transport
Play(d) ==
  /\ ~alertShown
  /\ EndedRoom(d)
  /\ UNCHANGED <<toolVars, persistVars>>
  /\ lastOp' = Op("play", d)
  /\ IF ~isLoaded[d] \/ ~audioContext[d]
       THEN UNCHANGED <<isPlaying, refVars, eqNode, currentTime, crossfaderNode>>
       ELSE /\ isPlaying' = [isPlaying EXCEPT ![d] = TRUE]
            /\ currentTime' = [currentTime EXCEPT ![d] =
                 IF SyncTarget(d) # NoPeak THEN SyncTarget(d) ELSE @]
            /\ Commit(d, CreateAndStartSource(d, PlayOffset(d), Cap(d),
                                              [Refs(d) EXCEPT !.startOffset = PlayOffset(d)]))
            /\ MixerEffect
  /\ UNCHANGED <<alertShown, cfgVars, loadVars, ctlVars, filterNode, appVars>>

\* the offset pause() stores: startOffsetRef + (currentTime - loopStartTimeRef)
PausedOffset(d) == startOffset[d] + Scale * elapsed[d]

Pause(d) ==
  /\ ~alertShown
  /\ EndedRoom(d)
  /\ PausedOffset(d) <= MaxOffset
  /\ UNCHANGED <<toolVars, persistVars>>
  /\ lastOp' = Op("pause", d)
  /\ isPlaying' = [isPlaying EXCEPT ![d] = FALSE]
  /\ LET r0 == Refs(d)
         r1 == IF r0.src.id # 0
                 THEN [StopSource(r0) EXCEPT !.startOffset = PausedOffset(d),
                                             !.src = NoSource, !.elapsed = 0]
                 ELSE r0
     IN Commit(d, ClearLoopTimeout(r1))
  /\ MixerEffect
  /\ UNCHANGED <<alertShown, cfgVars, loadVars, ctlVars, filterNode, appVars, currentTime>>

\* seek without the clamp of the requested time
SeekTimeUnclamped(d, time) == time

\* seekTime = Math.max(0, Math.min(time, audioDuration))
SeekTime(d, time) == Clamp(time, TrackDuration(audioBuffer[d]))

Seek(d, time) ==
  /\ ~alertShown
  /\ EndedRoom(d)
  /\ UNCHANGED <<toolVars, persistVars>>
  /\ lastOp' = Op("seek", d)
  /\ IF ~isLoaded[d] \/ audioBuffer[d] = NoTrack
       THEN UNCHANGED <<isPlaying, refVars, eqNode, currentTime, crossfaderNode>>
       ELSE LET r0 == Refs(d)
                r1 == IF r0.src.id # 0
                        THEN [StopSource(r0) EXCEPT !.src = NoSource, !.elapsed = 0]
                        ELSE r0
                r2 == [ClearLoopTimeout(r1) EXCEPT !.startOffset = SeekTime(d, time)]
            IN /\ UNCHANGED isPlaying
               /\ currentTime' = [currentTime EXCEPT ![d] = SeekTime(d, time)]
               /\ Commit(d, IF isPlaying[d]
                              THEN CreateAndStartSource(d, SeekTime(d, time), Cap(d), r2)
                              ELSE r2)
               /\ MixerEffect
  /\ UNCHANGED <<alertShown, cfgVars, loadVars, ctlVars, filterNode, appVars>>

\* setPitchValue(p) and the effect on [pitchValue]
SetPitchValue(d, p) ==
  /\ ~alertShown
  /\ p # pitchValue[d]
  /\ pitchValue' = [pitchValue EXCEPT ![d] = p]
  /\ sourceNode' = [sourceNode EXCEPT ![d] =
       IF @.id # 0 THEN [@ EXCEPT !.rate = Rate(p)] ELSE @]
  /\ UNCHANGED <<toolVars, persistVars>>
  /\ lastOp' = Op("setPitch", d)
  /\ UNCHANGED <<isPlaying, alertShown, timers, loopTimeout, endedQ, sounding, startOffset, elapsed,
                 bpm, loopEnabled, loopStart, loopLength, loadVars>>
  /\ MixerEffect
  /\ UNCHANGED renderedVars

\* setLoopEnabled(b) and the effect that copies it to loopEnabledRef
SetLoopEnabled(d, b) ==
  /\ ~alertShown
  /\ b # loopEnabled[d]
  /\ loopEnabled' = [loopEnabled EXCEPT ![d] = b]
  /\ UNCHANGED <<toolVars, persistVars>>
  /\ lastOp' = Op("setLoopEnabled", d)
  /\ UNCHANGED <<isPlaying, alertShown, refVars, pitchValue, bpm, loopStart, loopLength, loadVars>>
  /\ MixerEffect
  /\ UNCHANGED renderedVars

\* ---------------------------------------------------------------- callbacks
\* the setTimeout callback of the loop branch
TimerFire(d, t) ==
  /\ ~alertShown
  /\ EndedRoom(d)
  /\ t \in timers[d]
  /\ TimerDue(t, elapsed[d])
  /\ UNCHANGED <<toolVars, persistVars>>
  /\ lastOp' = Op("timer", d)
  /\ LET r0 == [Refs(d) EXCEPT !.timers = @ \ {t}]
     IN Commit(d, IF sourceNode[d].id # 0 /\ isPlaying[d] /\ loopEnabled[d]
                    THEN CreateAndStartSource(d, 0, t.cap, StopSource(r0))
                    ELSE r0)
  /\ UNCHANGED <<isPlaying, alertShown, cfgVars, loadVars>>
  /\ UNCHANGED <<ctlVars, filterNode, crossfaderNode, appVars, currentTime>>

\* the onended handler of the source that queued e (on a Stopped deck it only
\* repeats setIsPlaying(false), and lastOp keeps the operation before it)
EndedDeliver(d, e) ==
  /\ ~alertShown
  /\ e \in endedQ[d]
  /\ UNCHANGED <<toolVars, persistVars>>
  /\ lastOp' = IF isPlaying[d] THEN Op("ended", d) ELSE lastOp
  /\ LET r0 == [Refs(d) EXCEPT !.ended = @ \ {e}]
     IN IF e.loopHandler /\ isPlaying[d] /\ loopEnabled[d]
          THEN /\ Commit(d, CreateAndStartSource(d, 0, e.cap, r0))
               /\ UNCHANGED <<isPlaying, crossfaderNode>>
          ELSE /\ Commit(d, r0)
               /\ isPlaying' = [isPlaying EXCEPT ![d] = FALSE]
               /\ IF isPlaying[d] THEN MixerEffect ELSE UNCHANGED crossfaderNode
  /\ UNCHANGED <<alertShown, cfgVars, loadVars, ctlVars, filterNode, appVars, currentTime>>

\* ------------------------------------------------------------------- backend
\* a playing source advanced by one tick: its position, and whether it ran out
Advance(s) ==
  IF ~s.playing THEN s
  ELSE IF s.pos + s.rate >= TrackDuration(s.buf)
         THEN [s EXCEPT !.pos = TrackDuration(s.buf), !.playing = FALSE]
         ELSE [s EXCEPT !.pos = @ + s.rate]

\* the backend clock advances one tick; queued events and due timers run first
Tick ==
  /\ ~alertShown
  /\ \E d \in Decks : sourceNode[d].id # 0
  /\ \A d \in Decks :
       /\ endedQ[d] = {}
       /\ \A t \in timers[d] : ~TimerDue(t, elapsed[d])
       /\ sourceNode[d].id # 0 => elapsed[d] < MaxElapsed
  /\ sourceNode' = [d \in Decks |-> Advance(sourceNode[d])]
  /\ elapsed' = [d \in Decks |-> IF sourceNode[d].id # 0 THEN elapsed[d] + 1 ELSE elapsed[d]]
  /\ endedQ' = [d \in Decks |->
       IF sourceNode[d].playing /\ ~Advance(sourceNode[d]).playing
         THEN {EndedEvent(sourceNode[d], TRUE)} ELSE {}]
  /\ sounding' = [d \in Decks |->
       IF sourceNode[d].playing /\ ~Advance(sourceNode[d]).playing
         THEN sounding[d] - 1 ELSE sounding[d]]
  /\ UNCHANGED <<toolVars, persistVars>>
  /\ lastOp' = NoOp("tick")
  /\ UNCHANGED <<isPlaying, alertShown, timers, loopTimeout, startOffset, cfgVars, loadVars>>
  /\ UNCHANGED unrenderedVars

\* currentOffset(): the position updateTime computes while Playing, else the stored offset
CurrentOffset(d) ==
  IF isPlaying[d]
    THEN Min(startOffset[d] + Scale * elapsed[d], TrackDuration(audioBuffer[d]))
    ELSE startOffset[d]

\* ------------------------------------------------------------------ display
\* one run of the requestAnimationFrame callback updateTime of a Playing deck
UpdateTime(d) ==
  /\ ~alertShown
  /\ isPlaying[d]
  /\ audioContext[d]
  /\ currentTime[d] # CurrentOffset(d)
  /\ currentTime' = [currentTime EXCEPT ![d] = CurrentOffset(d)]
  /\ UNCHANGED <<toolVars, persistVars>>
  /\ lastOp' = Op("updateTime", d)
  /\ MixerEffect
  /\ UNCHANGED <<isPlaying, alertShown, refVars, cfgVars, loadVars, ctlVars, nodeVars, appVars>>

\* ------------------------------------------------------- App, one sync flag
\* handleSyncToggle: setSyncEnabled(!syncEnabled)
HandleSyncToggle ==
  /\ ~alertShown
  /\ syncEnabled' = ~syncEnabled
  /\ UNCHANGED <<toolVars, persistVars>>
  /\ lastOp' = NoOp("syncToggle")
  /\ MixerEffect
  /\ UNCHANGED <<isPlaying, alertShown, refVars, cfgVars, loadVars>>
  /\ UNCHANGED <<ctlVars, nodeVars, syncFlag, syncSeen, currentTime>>

\* the deck the App effect writes to (the other one is the master), or "-"
SyncFollower ==
  IF ~syncEnabled THEN "-"
  ELSE IF isPlaying["A"] /\ ~isPlaying["B"] THEN "B"
  ELSE IF isPlaying["B"] /\ ~isPlaying["A"] THEN "A"
  ELSE IF isPlaying["A"] /\ isPlaying["B"] THEN "B"
  ELSE "-"

\* the App effect has a write to make
SyncPending == SyncFollower # "-" /\ bpm[SyncFollower] # bpm[Other(SyncFollower)]

\* the App effect on [syncEnabled, isPlaying, bpm]: follower.setBPM(master.bpm)
SyncEffect ==
  /\ ~alertShown
  /\ SyncPending
  /\ bpm' = [bpm EXCEPT ![SyncFollower] = bpm[Other(SyncFollower)]]
  /\ UNCHANGED <<toolVars, persistVars>>
  /\ lastOp' = Op("syncEffect", SyncFollower)
  /\ MixerEffect
  /\ UNCHANGED <<isPlaying, alertShown, refVars, pitchValue, loopEnabled, loopStart, loopLength,
                 loadVars, renderedVars>>

\* ------------------------------------------------------ App, per-deck flags
\* a toggle that leaves the other deck's flag alone
ToggleKeepsOther(d) == syncFlag[Other(d)]

\* if (!syncEnabledX) setSyncEnabledY(false), with the value the handler closed over
ToggleOther(d) == IF ~syncSeen[d] THEN FALSE ELSE syncFlag[Other(d)]

\* handleSyncToggleA / handleSyncToggleB, closed over the flag as last rendered
HandleSyncToggleDeck(d) ==
  /\ ~alertShown
  /\ syncFlag' = [x \in Decks |-> IF x = d THEN ~syncSeen[d] ELSE ToggleOther(d)]
  /\ UNCHANGED <<toolVars, persistVars>>
  /\ lastOp' = Op("syncToggleDeck", d)
  /\ UNCHANGED <<isPlaying, alertShown, refVars, cfgVars, loadVars>>
  /\ UNCHANGED <<ctlVars, nodeVars, crossfaderNode, syncEnabled, syncSeen, currentTime>>

\* the re-render after the flags changed: the handlers close over the new values
Render ==
  /\ syncSeen # syncFlag
  /\ syncSeen' = syncFlag
  /\ UNCHANGED <<toolVars, persistVars>>
  /\ lastOp' = NoOp("render")
  /\ MixerEffect
  /\ UNCHANGED <<isPlaying, alertShown, refVars, cfgVars, loadVars>>
  /\ UNCHANGED <<ctlVars, nodeVars, syncEnabled, syncFlag, currentTime>>

\* an effect that writes whether or not the two values differ
SyncWriteAlways(d) == TRUE

\* deckB.bpm !== deckA.bpm
SyncWriteNeeded(d) == bpm[Other(d)] # bpm[d]

\* an effect that writes the deck's own value back
SyncWriteOwn(d) == bpm[d]

\* the argument of setBPM in the effect: the other deck's bpm
SyncWriteValue(d) == bpm[Other(d)]

\* the effect of deck d: if (syncEnabledD && other.bpm !== d.bpm) d.setBPM(other.bpm)
DeckSyncEffect(d) ==
  /\ ~alertShown
  /\ syncSeen[d]
  /\ syncSeen = syncFlag
  /\ SyncWriteNeeded(d)
  /\ bpm' = [bpm EXCEPT ![d] = SyncWriteValue(d)]
  /\ UNCHANGED <<toolVars, persistVars>>
  /\ lastOp' = Op("deckSyncEffect", d)
  /\ MixerEffect
  /\ UNCHANGED <<isPlaying, alertShown, refVars, pitchValue, loopEnabled, loopStart, loopLength,
                 loadVars, renderedVars>>

\* setBPM(v) from the BPM correction controls of the deck
SetBPM(d, v) ==
  /\ ~alertShown
  /\ v # bpm[d]
  /\ bpm' = [bpm EXCEPT ![d] = v]
  /\ UNCHANGED <<toolVars, persistVars>>
  /\ lastOp' = Op("setBPM", d)
  /\ MixerEffect
  /\ UNCHANGED <<isPlaying, alertShown, refVars, pitchValue, loopEnabled, loopStart, loopLength,
                 loadVars, renderedVars>>

\* ------------------------------------------------------------ mixer controls
\* setEqLow / setEqMid / setEqHigh and the band's effect on [eq, kill]
SetEq(d, b, v) ==
  /\ ~alertShown
  /\ v # eqValue[d][b]
  /\ eqValue' = [eqValue EXCEPT ![d][b] = v]
  /\ eqNode' = [eqNode EXCEPT ![d] =
       IF @ = NoNode THEN @ ELSE <<[@[1] EXCEPT ![b] = EqGain(eqKill[d][b], v)]>>]
  /\ UNCHANGED <<toolVars, persistVars>>
  /\ lastOp' = Op("setEq", d)
  /\ MixerEffect
  /\ UNCHANGED <<eqKill, filterValue, filterNode, crossfader, crossfaderGain, appVars, currentTime>>
  /\ UNCHANGED <<isPlaying, alertShown, refVars, cfgVars, loadVars>>

\* the kill toggle that drops the stored dB value
ToggleKillZeroesEq(d, b) == [eqValue EXCEPT ![d][b] = 0]

\* onKillToggle: setEqKill(!kill) leaves the dB state alone
ToggleKill(d, b) == eqValue

\* the kill button of a band and the band's effect on [eq, kill]
KillToggle(d, b) ==
  /\ ~alertShown
  /\ eqKill' = [eqKill EXCEPT ![d][b] = ~@]
  /\ eqValue' = ToggleKill(d, b)
  /\ eqNode' = [eqNode EXCEPT ![d] =
       IF @ = NoNode THEN @ ELSE <<[@[1] EXCEPT ![b] = EqGain(~eqKill[d][b], eqValue'[d][b])]>>]
  /\ UNCHANGED <<toolVars, persistVars>>
  /\ lastOp' = Op("killToggle", d)
  /\ MixerEffect
  /\ UNCHANGED <<filterValue, filterNode, crossfader, crossfaderGain, appVars, currentTime>>
  /\ UNCHANGED <<isPlaying, alertShown, refVars, cfgVars, loadVars>>

\* setFilterValue(v) and the effect on [filterValue]
SetFilterValue(d, v) ==
  /\ ~alertShown
  /\ v # filterValue[d]
  /\ filterValue' = [filterValue EXCEPT ![d] = v]
  /\ filterNode' = [filterNode EXCEPT ![d] = FilterEffect(@, v)]
  /\ UNCHANGED <<toolVars, persistVars>>
  /\ lastOp' = Op("setFilter", d)
  /\ MixerEffect
  /\ UNCHANGED <<eqValue, eqKill, eqNode, crossfader, crossfaderGain, appVars, currentTime>>
  /\ UNCHANGED <<isPlaying, alertShown, refVars, cfgVars, loadVars>>

\* setCrossfader(c) and the Mixer effect: setCrossfaderGain(curve) on both decks
SetCrossfader(c) ==
  /\ ~alertShown
  /\ c # crossfader
  /\ crossfader' = c
  /\ crossfaderGain' = [d \in Decks |-> CrossfadeCurve(d, c)]
  /\ crossfaderNode' = [d \in Decks |->
       IF crossfaderNode[d] = NoNode THEN NoNode ELSE <<CrossfadeCurve(d, c)>>]
  /\ UNCHANGED <<toolVars, persistVars>>
  /\ lastOp' = NoOp("setCrossfader")
  /\ UNCHANGED <<eqValue, eqKill, eqNode, filterValue, filterNode, appVars, currentTime>>
  /\ UNCHANGED <<isPlaying, alertShown, refVars, cfgVars, loadVars>>

\* the transport of one deck: one track, loads issued one at a time
Next ==
  \/ \E d \in OpDecks : LoadAudioFile(d, "t1") /\ loads[d] = <<>> /\ audioBuffer[d] = NoTrack
  \/ \E d \in OpDecks : DecodeOk(d, 1)
  \/ \E d \in OpDecks : AnalysisDone(d, 1)
  \/ \E d \in OpDecks : Play(d)
  \/ \E d \in OpDecks : Pause(d)
  \/ \E d \in OpDecks, t \in SeekTimes : Seek(d, t)
  \/ \E d \in OpDecks, p \in PitchValues : SetPitchValue(d, p)
  \/ \E d \in OpDecks, b \in BOOLEAN : SetLoopEnabled(d, b)
  \/ \E d \in OpDecks : \E t \in timers[d] : TimerFire(d, t)
  \/ \E d \in OpDecks : \E e \in endedQ[d] : EndedDeliver(d, e)
  \/ Tick

Spec == Init /\ [][Next]_vars

\* loading: several files, loads in flight together, decode failures
NextLoad ==
  \/ \E d \in OpDecks, f \in Files : LoadAudioFile(d, f)
  \/ \E d \in OpDecks, i \in 1..MaxLoads : DecodeOk(d, i)
  \/ \E d \in OpDecks, i \in 1..MaxLoads : DecodeFail(d, i)
  \/ \E d \in OpDecks, i \in 1..MaxLoads : AnalysisDone(d, i)
  \/ AlertDismiss
  \/ \E d \in OpDecks : Play(d)
  \/ \E d \in OpDecks : Pause(d)
  \/ \E d \in OpDecks : \E e \in endedQ[d] : EndedDeliver(d, e)
  \/ Tick

SpecLoad == Init /\ [][NextLoad]_vars

\* the mixer: each deck loads its first track (the load that creates the nodes);
\* deck A's controls and the crossfader move
InitMixer == Init /\ isLoaded = [d \in Decks |-> FALSE]

NextMixer ==
  \/ \E d \in Decks : ~audioContext[d] /\ LoadAudioFile(d, "t1")
  \/ \E d \in Decks : \E i \in 1..Len(loads[d]) : DecodeOk(d, i)
  \/ \E d \in Decks : \E i \in 1..Len(loads[d]) : AnalysisDone(d, i)
  \/ \E d \in OpDecks : \E b \in Bands : \E v \in EqValues : SetEq(d, b, v)
  \/ \E d \in OpDecks : \E b \in Bands : KillToggle(d, b)
  \/ \E d \in OpDecks : \E v \in FilterValues : SetFilterValue(d, v)
  \/ \E c \in CrossfaderValues : SetCrossfader(c)
  \/ \E d \in OpDecks : \E p \in PitchArgs : SetPitchValue(d, p)

SpecMixer == InitMixer /\ [][NextMixer]_vars

\* two decks with a track loaded on each, under the App with one sync flag
BothLoaded(tr) ==
  /\ audioBuffer = tr
  /\ lastLoad = tr
  /\ bpm = [d \in Decks |-> DetectedBPM(tr[d])]
  /\ peaks = [d \in Decks |-> TrackPeaks(tr[d])]
  /\ audioContext = [d \in Decks |-> TRUE]
  /\ isLoaded = [d \in Decks |-> TRUE]
  /\ loopEnabled = [d \in Decks |-> FALSE]
  /\ loopStart = [d \in Decks |-> 0]
  /\ loopLength = [d \in Decks |-> DefaultLoopLength]
  /\ isPlaying = [d \in Decks |-> FALSE]
  /\ startOffset = [d \in Decks |-> 0]
  /\ elapsed = [d \in Decks |-> 0]
  /\ sourceNode = [d \in Decks |-> NoSource]
  /\ timers = [d \in Decks |-> {}]
  /\ loopTimeout = [d \in Decks |-> 0]
  /\ endedQ = [d \in Decks |-> {}]
  /\ sounding = [d \in Decks |-> 0]
  /\ pitchValue = [d \in Decks |-> 0]
  /\ loads = [d \in Decks |-> <<>>]
  /\ alertShown = FALSE
  /\ currentTime = [d \in Decks |-> 0]
  /\ eqValue = [d \in Decks |-> [b \in Bands |-> 0]]
  /\ eqKill = [d \in Decks |-> [b \in Bands |-> FALSE]]
  /\ eqNode = [d \in Decks |-> <<[b \in Bands |-> 0]>>]
  /\ filterValue = [d \in Decks |-> 0]
  /\ filterNode = [d \in Decks |-> <<NewFilterNode>>]
  /\ crossfader = InitialCrossfader
  /\ crossfaderGain = [d \in Decks |-> CrossfadeCurve(d, InitialCrossfader)]
  /\ crossfaderNode = [d \in Decks |-> <<CrossfadeCurve(d, InitialCrossfader)>>]
  /\ syncEnabled = FALSE
  /\ syncFlag = [d \in Decks |-> FALSE]
  /\ syncSeen = [d \in Decks |-> FALSE]
  /\ ToolsIdle
  /\ PersistFresh
  /\ lastOp = NoOp("init")

InitSync ==
  \E ts \in SyncTracks : BothLoaded([d \in Decks |-> IF d = "A" THEN ts[1] ELSE ts[2]])

NextSync ==
  \/ \E d \in Decks : Play(d)
  \/ \E d \in Decks : \E t \in SyncSeekTimes : Seek(d, t)
  \/ \E d \in Decks : \E e \in endedQ[d] : EndedDeliver(d, e)
  \/ \E d \in Decks : UpdateTime(d)
  \/ Tick
  \/ HandleSyncToggle
  \/ SyncEffect

SpecSync == InitSync /\ [][NextSync]_vars

\* deck A plays a loop while the low band's EQ value and kill switch move
NextEqLoop ==
  \/ \E d \in OpDecks : Play(d)
  \/ \E d \in OpDecks : \E b \in BOOLEAN : SetLoopEnabled(d, b)
  \/ \E d \in OpDecks : \E t \in timers[d] : TimerFire(d, t)
  \/ \E d \in OpDecks : \E e \in endedQ[d] : EndedDeliver(d, e)
  \/ Tick
  \/ \E d \in OpDecks : \E v \in EqValues : SetEq(d, "low", v)
  \/ \E d \in OpDecks : KillToggle(d, "low")

SpecEqLoop == InitSync /\ [][NextEqLoop]_vars

\* the App with one sync flag per deck: toggles, renders, the two effects,
\* manual BPM corrections on both decks and loads on deck A
NextFlags ==
  \/ \E d \in Decks : HandleSyncToggleDeck(d)
  \/ Render
  \/ \E d \in Decks : DeckSyncEffect(d)
  \/ \E d \in Decks : \E v \in BpmValues : SetBPM(d, v)
  \/ \E d \in OpDecks : \E f \in Tracks : LoadAudioFile(d, f)
  \/ \E d \in OpDecks : \E i \in 1..Len(loads[d]) : DecodeOk(d, i)
  \/ \E d \in OpDecks : \E i \in 1..Len(loads[d]) : AnalysisDone(d, i)

SpecFlags == Init /\ [][NextFlags]_vars

\* React renders after a state change and runs the effects of the render
FairFlags ==
  /\ WF_vars(Render)
  /\ \A d \in Decks : WF_vars(DeckSyncEffect(d))

SpecFlagsFair == SpecFlags /\ FairFlags

\* ------------------------------------------------------------------- claims

\* C1: seek(t) on a deck that is Playing with a live source keeps it Playing,
\* stops that source and starts another one, and re-anchors: right after the
\* call currentOffset() is t clamped to [0, duration], whatever the anchor was.
C1_SeekReanchors ==
  [][\A d \in Decks, t \in SeekTimes :
       (Seek(d, t) /\ Live(d)) =>
         /\ isPlaying'[d]
         /\ sourceNode'[d].id \notin {0, sourceNode[d].id}
         /\ \E e \in endedQ'[d] : e.id = sourceNode[d].id /\ ~e.natural
         /\ startOffset'[d] = Clamp(t, TrackDuration(audioBuffer[d]))
         /\ elapsed'[d] = 0
         /\ CurrentOffset(d)' = Clamp(t, TrackDuration(audioBuffer[d]))]_vars

C1_Witness ==
  /\ lastOp = [op |-> "seek", deck |-> "A", live |-> TRUE]
  /\ Live("A")
  /\ CurrentOffset("A") = 10
  /\ \E e \in endedQ["A"] : ~e.natural

\* C2: with loop disabled, pause() on a Live deck stores anchor offset + elapsed
\* backend time, and a play() that follows starts its source at exactly that
\* stored offset.
C2_PauseResumeOriginal ==
  [][\A d \in Decks :
       /\ (Pause(d) /\ Live(d)) => startOffset'[d] = startOffset[d] + Scale * elapsed[d]
       /\ (Play(d) /\ lastOp = [op |-> "pause", deck |-> d, live |-> TRUE]
             /\ ~loopEnabled[d] /\ isLoaded[d] /\ audioBuffer[d] # NoTrack)
            => sourceNode'[d].pos = startOffset[d]]_vars

\* C3: each deck has at most one loop-restart timer pending.
C3_OneLoopTimer == \A d \in Decks : Cardinality(timers[d]) <= 1

C3_Witness ==
  /\ lastOp.op = "ended"
  /\ isPlaying["A"]
  /\ Cardinality(timers["A"]) = 1
  /\ loopTimeout["A"] # 0

\* C4: when a load issued on a deck that was Playing completes (decode and
\* analysis done), the deck is Stopped with logicalOffset 0, bpm from the
\* estimate and the peaks of the new track.
C4_LoadEndsStoppedOriginal ==
  [][\A d \in Decks, i \in 1..MaxLoads :
       (AnalysisDone(d, i) /\ loads[d][i].wasLive) =>
         /\ isLoaded'[d]
         /\ ~isPlaying'[d]
         /\ startOffset'[d] = 0
         /\ bpm'[d] = DetectedBPM(loads[d][i].file)
         /\ peaks'[d] = TrackPeaks(loads[d][i].file)]_vars

\* C5: once no load is in flight, buffer, bpm and peaks are those of the most
\* recently issued load (when that load decoded).
C5_LatestLoadWinsOriginal ==
  \A d \in Decks :
    (loads[d] = <<>> /\ lastLoad[d] \in Tracks) =>
      /\ audioBuffer[d] = lastLoad[d]
      /\ bpm[d] = DetectedBPM(lastLoad[d])
      /\ peaks[d] = TrackPeaks(lastLoad[d])

\* C6: a failed decode raises the error alert and leaves playback state, track
\* buffer, offset, bpm and peaks of the deck as they were; an unloaded deck
\* stays unloaded.
C6_DecodeFailureKeepsDeck ==
  [][\A d \in Decks, i \in 1..MaxLoads :
       DecodeFail(d, i) =>
         /\ alertShown'
         /\ UNCHANGED <<isPlaying[d], isLoaded[d], audioBuffer[d], startOffset[d],
                        bpm[d], peaks[d], sourceNode[d]>>]_vars

C6_Witness ==
  /\ lastOp.op = "decodeFail"
  /\ alertShown
  /\ ~isLoaded["A"]
  /\ audioBuffer["A"] = NoTrack

\* C7: no deck reports Playing while it has no decoded track.
C7_NoPlayingWithoutTrackOriginal ==
  \A d \in Decks : isPlaying[d] => audioBuffer[d] # NoTrack

\* C8: when the live source has just run out with loop disabled, its ended
\* handler leaves the deck Stopped with logicalOffset = duration.
C8_EndOfTrackOriginal ==
  [][\A d \in Decks : \A e \in endedQ[d] :
       (EndedDeliver(d, e) /\ e.natural /\ e.id = sourceNode[d].id
          /\ ~e.loopHandler /\ ~loopEnabled[d] /\ isPlaying[d]
          /\ lastOp.op = "tick")
         => /\ ~isPlaying'[d]
            /\ startOffset'[d] = TrackDuration(audioBuffer[d])]_vars

\* C9: pause() on a Live deck stores an offset within [0, duration].
C9_PauseClampedOriginal ==
  [][\A d \in Decks :
       (Pause(d) /\ Live(d) /\ sourceNode[d].buf = audioBuffer[d])
         => startOffset'[d] \in 0..TrackDuration(audioBuffer[d])]_vars

\* C10: a source that is sounding runs at 1 + pitchValue/100 for the deck's
\* current pitchValue.
C10_RateFollowsPitchOriginal ==
  \A d \in Decks : sourceNode[d].playing => sourceNode[d].rate = Rate(pitchValue[d])

\* C11: after any sequence of setPitchValue calls with arbitrary arguments the
\* deck's pitch percentage lies within -8..8
C11_PitchInRangeOriginal == \A d \in Decks : pitchValue[d] \in (-8)..8

\* C12: whenever a source is started at offset o inside an enabled loop, the
\* restart callback is due (D - (o mod D)) / (1 + pitchValue/100) seconds later,
\* D being the loop duration computed from the deck's bpm, loop start and length
C12_RestartDelayOriginal ==
  [][\A d \in Decks : \A t \in timers'[d] \ timers[d] :
       t.num * (Rate(pitchValue[d]) * bpm[d])' =
         RemainingBpm(startOffset[d], Cap(d), TrackDuration(audioBuffer[d]))' * t.den]_vars

\* C13: a play() that starts a deck while sync is enabled and the other deck is
\* Playing with a non-empty peak list anchors the deck at the peak of its own
\* list nearest to the other deck's current offset at that moment (its own
\* offset when it has no peaks); every other play() anchors it at its own offset
C13_SyncAnchorOriginal ==
  [][\A d \in Decks :
       (Play(d) /\ isLoaded[d] /\ audioContext[d]) =>
         startOffset'[d] =
           IF SyncBranch(d) /\ peaks[d] # <<>>
             THEN FindNearestPeak(CurrentOffset(Other(d)), peaks[d])
             ELSE startOffset[d]]_vars

\* C14: the peak a sync start takes from findNearestPeak(m, peaks) is a member of
\* peaks, no other peak is nearer to m, and every peak before it in the list is
\* strictly farther; with an empty list there is no peak and the deck keeps its offset
C14_NearestPeak ==
  [][\A d \in Decks :
       (Play(d) /\ isLoaded[d] /\ audioContext[d] /\ SyncBranch(d)) =>
         LET m == currentTime[Other(d)]
             ps == peaks[d]
             r == startOffset'[d]
         IN IF ps = <<>>
              THEN FindNearestPeak(m, ps) = NoPeak /\ r = startOffset[d]
              ELSE \E i \in 1..Len(ps) :
                     /\ ps[i] = r
                     /\ \A j \in 1..Len(ps) : Abs(ps[j] - m) >= Abs(r - m)
                     /\ \A j \in 1..(i - 1) : Abs(ps[j] - m) > Abs(r - m)]_vars

\* a sync start with two peaks equally near: 1.00 between 0.50 and 1.50 gives 0.50
C14_Witness ==
  \E d \in Decks :
    /\ lastOp = [op |-> "play", deck |-> d, live |-> FALSE]
    /\ syncEnabled /\ isPlaying[Other(d)] /\ peaks[Other(d)] # <<>>
    /\ peaks[d] = <<50, 150>>
    /\ currentTime[Other(d)] = 100
    /\ startOffset[d] = 50

\* C15: the sync flags of decks A and B are never both enabled, whatever the
\* order of toggles and re-renders
C15_FlagsExclusive == ~(syncFlag["A"] /\ syncFlag["B"])

\* a toggle handled before the re-render has enabled one deck's flag and
\* disabled the other deck's, which the last render still shows enabled
C15_Witness ==
  \E d \in Decks :
    /\ lastOp.op = "syncToggleDeck" /\ lastOp.deck = d
    /\ syncFlag[d] /\ ~syncFlag[Other(d)]
    /\ syncSeen[Other(d)] /\ ~syncSeen[d]

\* C16: a sync effect writes deck X's bpm only when it differs from deck Y's,
\* writes Y's value, leaves Y's bpm alone, and leaves no effect of either deck
\* with a write to make: Y unchanged, X is written at most once
C16_SyncWriteOnce ==
  [][\A d \in Decks :
       DeckSyncEffect(d) =>
         /\ bpm[d] # bpm[Other(d)]
         /\ bpm'[d] = bpm[Other(d)]
         /\ bpm'[Other(d)] = bpm[Other(d)]
         /\ \A x \in Decks : ~(syncSeen'[x] /\ bpm'[Other(x)] # bpm'[x])]_vars

\* deck A, following deck B, has just been written by its sync effect
C16_Witness ==
  /\ lastOp.op = "deckSyncEffect" /\ lastOp.deck = "A"
  /\ syncFlag["A"] /\ syncSeen["A"]
  /\ bpm["A"] = bpm["B"]

C18_KillKeepsValueOriginal ==
  [][/\ \A d \in Decks : \A b \in Bands :
          KillToggle(d, b) =>
            /\ eqValue'[d][b] = eqValue[d][b]
            /\ eqNode'[d] # NoNode =>
                 eqNode'[d][1][b] = IF eqKill[d][b] THEN eqValue[d][b] ELSE KillGain
     /\ \A d \in Decks : \A b \in Bands :
          (eqNode'[d] # NoNode /\ eqKill'[d][b]) => eqNode'[d][1][b] = KillGain]_vars

\* C19: after a filterValue change the filter node matches the new value:
\* low-pass at 20000 Hz (pass-through) for 0, high-pass at 20 + |v| * 1980 Hz
\* for v < 0, low-pass at 20000 - v * 19980 Hz for v > 0
C19_FilterMatchesOriginal ==
  [][\A d \in Decks : \A v \in FilterValues :
       (SetFilterValue(d, v) /\ filterNode'[d] # NoNode) =>
         filterNode'[d][1] =
           IF v = 0 THEN [type |-> "lowpass", freq |-> 2000000]
           ELSE IF v < 0 THEN [type |-> "highpass", freq |-> 2000 + (-v) * 1980]
           ELSE [type |-> "lowpass", freq |-> 2000000 - v * 19980]]_vars

\* C20: after a crossfader change to c the stored crossfaderGain of deck A is
\* cos(c*pi/2) and of deck B sin(c*pi/2), (1, 0) at c = 0, (0, 1) at c = 1 and
\* 0.7071 for both at c = 0.5, and each deck's crossfade node holds the same value
C20_CrossfadeGains ==
  [][\A c \in CrossfaderValues :
       SetCrossfader(c) =>
         /\ crossfaderGain' =
              CASE c = 0 -> [A |-> 10000, B |-> 0]
                [] c = 50 -> [A |-> 7071, B |-> 7071]
                [] c = 100 -> [A |-> 0, B |-> 10000]
         /\ \A d \in Decks :
              crossfaderNode'[d] # NoNode => crossfaderNode'[d][1] = crossfaderGain'[d]]_vars

\* the crossfader has just been moved to deck B's end with both decks' nodes created
C20_Witness ==
  /\ lastOp.op = "setCrossfader"
  /\ crossfader = 100
  /\ crossfaderNode = [A |-> <<0>>, B |-> <<10000>>]
  /\ crossfaderGain = [A |-> 0, B |-> 10000]


(***************************************************************************)
(* The tempo estimator of utils/bpmDetector.js.  A buffer is described by  *)
(* what the analysis reads of it: whether it has samples, its duration in  *)
(* seconds, what the realtime-bpm-analyzer run resolves to (a tempo in     *)
(* hundredths of a BPM, or AnalyzerFails for a rejection or the 10 s       *)
(* timeout), whether reading its channel data throws, and the period, in   *)
(* hops of the energy sequence, of its beat.  Estimates are in tenths of a *)
(* BPM.                                                                    *)
(***************************************************************************)
SampleRate == 44100
AnalyzeSeconds == 30
AnalyzerFails == 0
DefaultEstimate == 1200
Durations == {8, 100, 150, 200, 270, 400}
Periods == {0, 3, 4, 7, 10, 13, 25, 45}
AnalyzerTempos == {AnalyzerFails, 9347, 12800}
EmptyBuffer ==
  [empty |-> TRUE, duration |-> 0, analyzer |-> AnalyzerFails,
   throws |-> FALSE, period |-> 0, offbeat |-> 0]
\* a bar of 19 hops with a second beat 9 hops into it: gaps of 9 and 10 hops
SwingPeriod == 19
SwingOffbeat == 9
Buffers ==
  {EmptyBuffer} \cup
  [empty : {FALSE}, duration : Durations, analyzer : AnalyzerTempos,
   throws : BOOLEAN, period : Periods, offbeat : {0}] \cup
  [empty : {FALSE}, duration : {8, 400}, analyzer : {AnalyzerFails},
   throws : {FALSE}, period : {SwingPeriod}, offbeat : {SwingOffbeat}]

\* estimateBPMFromDuration, the table keyed by the track length
EstimateBPMFromDuration(duration) ==
  IF duration < 120 THEN 1280
  ELSE IF duration < 180 THEN 1250
  ELSE IF duration < 240 THEN 1220
  ELSE IF duration < 300 THEN 1200
  ELSE 1200

\* the window and the hop of the energy sequence, in samples
WindowSize == SampleRate \div 10
HopSize == WindowSize \div 2

\* how many energy values the loop over the first 30 seconds pushes
EnergyCount(duration) ==
  LET maxSamples == SampleRate * Min(AnalyzeSeconds, duration)
      span == maxSamples - WindowSize
  IN  IF span <= 0 THEN 0 ELSE (span + HopSize - 1) \div HopSize

\* energyValues of a buffer whose beat returns every b.period hops, with a
\* second beat b.offbeat hops after it when b.offbeat > 0
EnergyValues(b) ==
  [i \in 0..(EnergyCount(b.duration) - 1) |->
     IF b.period > 0 /\ (i % b.period = 0 \/ (b.offbeat > 0 /\ i % b.period = b.offbeat))
       THEN 2 ELSE 1]

\* sortedValues[k] of the ascending sort of values
SortedAt(values, k) ==
  LET idx == DOMAIN values
  IN  CHOOSE v \in {values[i] : i \in idx} :
        /\ Cardinality({i \in idx : values[i] < v}) <= k
        /\ k < Cardinality({i \in idx : values[i] <= v})

\* the scan of findPeaksSimple over the indices lo..hi, in ascending order,
\* as <<peaks pushed, lastPeakIndex>>: an index that passes the first three
\* tests (cand) is accepted when it lies minPeakDistance or more after the
\* last accepted one.  The range is halved to keep the evaluation shallow.
RECURSIVE AcceptPeaks(_, _, _, _, _)
AcceptPeaks(cand, lo, hi, lastPeakIndex, minPeakDistance) ==
  IF lo > hi THEN <<<< >>, lastPeakIndex>>
  ELSE IF lo = hi
  THEN IF lo \in cand /\ lo - lastPeakIndex >= minPeakDistance
       THEN <<<<lo>>, lo>>
       ELSE <<<< >>, lastPeakIndex>>
  ELSE LET mid == (lo + hi) \div 2
           left == AcceptPeaks(cand, lo, mid, lastPeakIndex, minPeakDistance)
           right == AcceptPeaks(cand, mid + 1, hi, left[2], minPeakDistance)
       IN  <<left[1] \o right[1], right[2]>>

\* findPeaksSimple: local maxima above the value at 70% of the sorted
\* energies, at least 0.3 s apart
FindPeaksSimple(values) ==
  LET n == Cardinality(DOMAIN values)
      minPeakDistance == (3 * SampleRate) \div (10 * HopSize)
  IN  IF n = 0 THEN << >>
      ELSE LET threshold == SortedAt(values, (n * 7) \div 10)
               cand == {i \in 1..(n - 2) :
                          /\ values[i] > threshold
                          /\ values[i] > values[i - 1]
                          /\ values[i] > values[i + 1]}
           IN  AcceptPeaks(cand, 1, n - 2, -minPeakDistance, minPeakDistance)[1]

\* the gaps between consecutive peaks, in hops, that last 0.2 s to 2.0 s
QualifyingGaps(pk) ==
  LET gap(i) == pk[i] - pk[i - 1]
  IN  {i \in 2..Len(pk) :
         /\ gap(i) * HopSize * 10 >= 2 * SampleRate
         /\ gap(i) * HopSize <= 2 * SampleRate}

\* the sum of the gaps pushed to intervals among those ending at lo..hi
RECURSIVE SumGaps(_, _, _, _)
SumGaps(pk, idx, lo, hi) ==
  IF lo > hi THEN 0
  ELSE IF lo = hi THEN (IF lo \in idx THEN pk[lo] - pk[lo - 1] ELSE 0)
  ELSE LET mid == (lo + hi) \div 2
       IN  SumGaps(pk, idx, lo, mid) + SumGaps(pk, idx, mid + 1, hi)

\* the fraction num / den in lowest terms
RECURSIVE Gcd(_, _)
Gcd(a, b) == IF b = 0 THEN a ELSE Gcd(b, a % b)
Lowest(num, den) == <<num \div Gcd(num, den), den \div Gcd(num, den)>>

\* while (bpm < 60) bpm *= 2, on the fraction num / den
RECURSIVE DoubleUp(_, _)
DoubleUp(num, den) ==
  IF num < 60 * den THEN DoubleUp(2 * num, den) ELSE <<num, den>>

\* while (bpm > 180) bpm /= 2, on the fraction num / den
RECURSIVE HalveDown(_, _)
HalveDown(num, den) ==
  IF num > 180 * den THEN HalveDown(num, 2 * den) ELSE <<num, den>>

\* 60 / avgInterval of the gaps idx of the peaks pk, brought into 60..180 by
\* the two while loops, as the fraction <<num, den>>
Normalized(pk, idx) ==
  LET raw == Lowest(60 * SampleRate * Cardinality(idx),
                    SumGaps(pk, idx, 2, Len(pk)) * HopSize)
      up == DoubleUp(raw[1], raw[2])
  IN  HalveDown(up[1], up[2])

\* the common tempos, in the order the loop tries them
CommonBPMs == <<120, 128, 125, 130, 140, 150, 160, 174>>

\* the first common tempo less than 5 BPM from num / den, 0 when there is none
RECURSIVE SnapFrom(_, _, _)
SnapFrom(num, den, k) ==
  IF k > Len(CommonBPMs) THEN 0
  ELSE IF Abs(num - CommonBPMs[k] * den) < 5 * den THEN CommonBPMs[k]
  ELSE SnapFrom(num, den, k + 1)

\* Math.round(bpm * 10) / 10 of the fraction num / den, in tenths
RoundTenths(num, den) == (20 * num + den) \div (2 * den)

\* detectBPMFallback: the peak analysis, the table when it has too little
\* to go on or throws
DetectBPMFallback(b) ==
  IF b.throws THEN EstimateBPMFromDuration(b.duration)
  ELSE
    LET pk == FindPeaksSimple(EnergyValues(b))
        idx == QualifyingGaps(pk)
    IN  IF Len(pk) < 4 THEN EstimateBPMFromDuration(b.duration)
        ELSE IF idx = {} THEN EstimateBPMFromDuration(b.duration)
        ELSE
          LET norm == Normalized(pk, idx)
              common == SnapFrom(norm[1], norm[2], 1)
          IN  IF common # 0 THEN RoundTenths(common, 1)
              ELSE RoundTenths(norm[1], norm[2])

\* detectBPM: 120 for no samples, the analyzer's tempo rounded to a tenth,
\* the internal analysis when the analyzer run fails
DetectBPM(b) ==
  IF b.empty THEN DefaultEstimate
  ELSE IF b.analyzer # AnalyzerFails THEN (b.analyzer + 5) \div 10
  ELSE DetectBPMFallback(b)

\* what the hooks and the App hold besides bpm and the open alert
hookVars == <<audioContext, audioBuffer, isLoaded, isPlaying, startOffset,
              elapsed, sourceNode, timers, loopTimeout, endedQ, sounding, pitchValue,
              loopEnabled, loopStart, loopLength, peaks, loads, lastLoad,
              currentTime, syncEnabled, syncFlag, syncSeen, eqValue, eqKill,
              eqNode, filterValue, filterNode, crossfader, crossfaderGain,
              crossfaderNode, storage, gain>>

\* detectBPMAsync(buffer) resolves
Detect(b) ==
  /\ buffer' = <<b>>
  /\ estimate' = DetectBPM(b)
  /\ UNCHANGED <<tapTimes, calculatedBPM>>
  /\ UNCHANGED <<bpm, alertShown, hookVars>>
  /\ lastOp' = NoOp("detect")

NextDetect == \E b \in Buffers : Detect(b)

SpecDetect == Init /\ [][NextDetect]_vars


\* the internal analysis of b gives up: its channel data cannot be read,
\* fewer than 4 peaks are accepted, or no gap between peaks lasts 0.2 s to 2.0 s
GivesUp(b) ==
  \/ b.throws
  \/ Len(FindPeaksSimple(EnergyValues(b))) < 4
  \/ QualifyingGaps(FindPeaksSimple(EnergyValues(b))) = {}

\* C22: when the buffer is empty, or the analyzer run fails and the internal
\* analysis throws, accepts fewer than 4 peaks or finds no inter-peak interval
\* in [0.2 s, 2.0 s], the estimate is exactly the duration-table value
\* (below 120 s 128, below 180 s 125, below 240 s 122, else 120)
C22_FallbackTableOriginal ==
  \A b \in Buffers :
    (buffer = <<b>> /\ (b.empty \/ (b.analyzer = AnalyzerFails /\ GivesUp(b)))) =>
      estimate = (IF b.duration < 120 THEN 1280
                  ELSE IF b.duration < 180 THEN 1250
                  ELSE IF b.duration < 240 THEN 1220
                  ELSE 1200)


(***************************************************************************)
(* The manual BPM corrections of a loaded deck: the TapTempo dialog (taps, *)
(* typed value, quick buttons) and the BPMCorrection dialog (suggestions,  *)
(* custom value).  Both hand their value to the hook's setBPM, the state   *)
(* setter.  Tap times are in ms since the first tap, calculatedBPM in      *)
(* tenths of a BPM; a typed text is given by what parseFloat makes of it.  *)
(***************************************************************************)
MaxTaps == 3
TapKeep == 8
MinManualBPM == 40
MaxManualBPM == 300
MinCustomBPM == 60
MaxCustomBPM == 200
NaN == -999999
PosInfinity == 999999
TapGaps == {0, 100, 500}
TypedValues == {NaN, 30, 40, 100, 300, 301}
QuickBPMs == {100, 110, 120, 125, 128, 130, 140, 150, 160, 174}

\* roundedBPM of handleTap: 60000 over the mean gap, rounded to a tenth;
\* the mean of the consecutive gaps is the span over their number
TappedBPM(times) ==
  LET n == Len(times)
      span == times[n] - times[1]
  IN  IF span = 0 THEN PosInfinity ELSE RoundTenths(60000 * (n - 1), span)

\* a value in tenths as the number setBPM receives (the taps drawn give
\* whole tempos)
ToBPM(tenths) == IF tenths = PosInfinity THEN PosInfinity ELSE tenths \div 10

\* setBPM(v) called from a correction control, and the render that follows
OnBPMChange(d, v) ==
  /\ bpm' = [bpm EXCEPT ![d] = v]
  /\ MixerEffect
  /\ UNCHANGED <<isPlaying, refVars, pitchValue, loopEnabled, loopStart, loopLength,
                 loadVars, renderedVars>>

\* handleTap, gap ms after the previous tap
HandleTap(d, gap) ==
  /\ ~alertShown /\ isLoaded[d]
  /\ Len(tapTimes[d]) < MaxTaps
  /\ LET now == IF tapTimes[d] = << >> THEN 0
                ELSE tapTimes[d][Len(tapTimes[d])] + gap
         pushed == Append(tapTimes[d], now)
         newTapTimes == IF Len(pushed) > TapKeep THEN Tail(pushed) ELSE pushed
     IN  /\ tapTimes' = [tapTimes EXCEPT ![d] = newTapTimes]
         /\ calculatedBPM' =
              IF Len(newTapTimes) >= 2
              THEN [calculatedBPM EXCEPT ![d] = TappedBPM(newTapTimes)]
              ELSE calculatedBPM
  /\ UNCHANGED <<buffer, estimate, bpm, alertShown, hookVars>>
  /\ lastOp' = Op("tap", d)

\* resetTaps, and the reset after 3 s without a tap
ResetTaps(d) ==
  /\ ~alertShown /\ isLoaded[d]
  /\ tapTimes[d] # << >>
  /\ tapTimes' = [tapTimes EXCEPT ![d] = << >>]
  /\ calculatedBPM' = [calculatedBPM EXCEPT ![d] = NoBPM]
  /\ UNCHANGED <<buffer, estimate, bpm, alertShown, hookVars>>
  /\ lastOp' = Op("resetTaps", d)

\* applyTappedBPM
ApplyTappedBPM(d) ==
  /\ ~alertShown /\ isLoaded[d]
  /\ calculatedBPM[d] # NoBPM
  /\ OnBPMChange(d, ToBPM(calculatedBPM[d]))
  /\ tapTimes' = [tapTimes EXCEPT ![d] = << >>]
  /\ calculatedBPM' = [calculatedBPM EXCEPT ![d] = NoBPM]
  /\ UNCHANGED <<buffer, estimate, persistVars, alertShown>>
  /\ lastOp' = Op("applyTapped", d)

\* applyManualBPM with parseFloat(manualBPM) = v
ApplyManualBPM(d, v) ==
  /\ ~alertShown /\ isLoaded[d]
  /\ IF v = NaN \/ v < MinManualBPM \/ v > MaxManualBPM
     THEN /\ alertShown' = TRUE
          /\ UNCHANGED <<bpm, hookVars>>
     ELSE /\ OnBPMChange(d, v)
          /\ UNCHANGED alertShown
  /\ UNCHANGED <<toolVars, persistVars>>
  /\ lastOp' = Op("applyManual", d)

\* a quick BPM button of the TapTempo dialog
QuickBPM(d, v) ==
  /\ ~alertShown /\ isLoaded[d]
  /\ OnBPMChange(d, v)
  /\ UNCHANGED <<toolVars, persistVars, alertShown>>
  /\ lastOp' = Op("quickBPM", d)

\* detectedBPM || bpm, as Deck hands it to BPMCorrection
DetectedOrCurrent(d) ==
  IF lastLoad[d] # NoTrack THEN DetectedBPM(lastLoad[d]) ELSE bpm[d]

\* the first 8 of the suggestions of BPMCorrection that lie in 60..200 and
\* do not repeat an earlier one (the tracks drawn have even tempos)
CommonSuggestions(d) ==
  LET det == DetectedOrCurrent(d)
      all == <<det, det * 2, det \div 2, 120, 125, 128, 130, 140, 150, 160, 174>>
      keep == {i \in 1..Len(all) :
                 /\ all[i] >= MinCustomBPM /\ all[i] <= MaxCustomBPM
                 /\ \A j \in 1..(i - 1) : all[j] # all[i]}
  IN  {all[i] : i \in {k \in keep : Cardinality({j \in keep : j < k}) < 8}}

\* handleQuickFix(v) for a suggestion button
HandleQuickFix(d, v) ==
  /\ ~alertShown /\ isLoaded[d]
  /\ v \in CommonSuggestions(d)
  /\ OnBPMChange(d, v)
  /\ UNCHANGED <<toolVars, persistVars, alertShown>>
  /\ lastOp' = Op("quickFix", d)

\* handleCustom with parseFloat(customBPM) = v
HandleCustom(d, v) ==
  /\ ~alertShown /\ isLoaded[d]
  /\ IF v # NaN /\ v >= MinCustomBPM /\ v <= MaxCustomBPM
     THEN OnBPMChange(d, v)
     ELSE UNCHANGED <<bpm, hookVars>>
  /\ UNCHANGED <<toolVars, persistVars, alertShown>>
  /\ lastOp' = Op("custom", d)

NextCorrect ==
  \/ \E d \in OpDecks : \E g \in TapGaps : HandleTap(d, g)
  \/ \E d \in OpDecks : ResetTaps(d)
  \/ \E d \in OpDecks : ApplyTappedBPM(d)
  \/ \E d \in OpDecks : \E v \in TypedValues : ApplyManualBPM(d, v)
  \/ \E d \in OpDecks : \E v \in QuickBPMs : QuickBPM(d, v)
  \/ \E d \in OpDecks : \E v \in MinCustomBPM..MaxCustomBPM : HandleQuickFix(d, v)
  \/ \E d \in OpDecks : \E v \in TypedValues : HandleCustom(d, v)
  \/ AlertDismiss

SpecCorrect == InitSync /\ [][NextCorrect]_vars

\* C23: a manual BPM correction never changes the deck's bpm to a value
\* outside [40, 300], on any path (typed value, tap-tempo result, quick
\* pick), so bpm stays a positive finite number
C23_CorrectionInRangeOriginal ==
  [][\A d \in Decks :
       bpm'[d] # bpm[d] =>
         /\ bpm'[d] >= MinManualBPM /\ bpm'[d] <= MaxManualBPM
         /\ bpm'[d] > 0 /\ bpm'[d] # PosInfinity]_vars


(***************************************************************************)
(* Two loaded decks side by side with sync off: deck A is loaded, played,  *)
(* paused, sought, re-pitched, corrected and looped, deck B is played,     *)
(* paused and looped, and the callbacks of both run.                       *)
(***************************************************************************)
PairFiles == {"t2", BadFile}
PairSeekTimes == {10}
PairPitchValues == {8}
PairBpmValues == {128}

InitPair == BothLoaded([d \in Decks |-> IF d = "A" THEN "t1" ELSE "t2"])

\* the deck is as loaded: no load started since, controls untouched
Pristine(d) ==
  /\ loads[d] = << >>
  /\ pitchValue[d] = 0 /\ ~loopEnabled[d] /\ bpm[d] = DetectedBPM(audioBuffer[d])

\* one load on deck A, started with its controls untouched and with no
\* control changed after it; deck B either stays idle or is looped and
\* played before anything else happens
NextPair ==
  \/ \E d \in OpDecks : \E f \in PairFiles : Pristine(d) /\ LoadAudioFile(d, f)
  \/ \E d \in OpDecks : DecodeOk(d, 1)
  \/ \E d \in OpDecks : DecodeFail(d, 1)
  \/ \E d \in OpDecks : AnalysisDone(d, 1)
  \/ AlertDismiss
  \/ \E d \in OpDecks : Play(d)
  \/ \E d \in OpDecks : Pause(d)
  \/ \E d \in OpDecks : \E t \in PairSeekTimes : Seek(d, t)
  \/ \E d \in OpDecks : \E p \in PairPitchValues : loads[d] = << >> /\ SetPitchValue(d, p)
  \/ \E d \in OpDecks : \E v \in PairBpmValues : loads[d] = << >> /\ SetBPM(d, v)
  \/ \E d \in OpDecks : \E b \in BOOLEAN : loads[d] = << >> /\ SetLoopEnabled(d, b)
  \/ \E d \in Decks \ OpDecks : lastOp.op = "init" /\ SetLoopEnabled(d, TRUE)
  \/ \E d \in Decks \ OpDecks : lastOp.deck = d /\ ~isPlaying[d] /\ Play(d)
  \/ \E d \in Decks : \E t \in timers[d] : TimerFire(d, t)
  \/ \E d \in Decks : \E e \in endedQ[d] : EndedDeliver(d, e)
  \/ Tick

SpecPair == InitPair /\ [][NextPair]_vars


\* a step of SpecPair that is an operation or a callback of deck d
DeckOp(d) ==
  \/ \E f \in PairFiles : LoadAudioFile(d, f)
  \/ DecodeOk(d, 1) \/ DecodeFail(d, 1) \/ AnalysisDone(d, 1)
  \/ Play(d) \/ Pause(d)
  \/ \E t \in PairSeekTimes : Seek(d, t)
  \/ \E p \in PairPitchValues : SetPitchValue(d, p)
  \/ \E v \in PairBpmValues : SetBPM(d, v)
  \/ \E b \in BOOLEAN : SetLoopEnabled(d, b)
  \/ \E t \in timers[d] : TimerFire(d, t)
  \/ \E e \in endedQ[d] : EndedDeliver(d, e)

\* the playback state, track, offset, anchor, BPM, pitch, loop and pending
\* callbacks of deck x
DeckState(x) ==
  <<isPlaying[x], isLoaded[x], audioBuffer[x], peaks[x], startOffset[x], elapsed[x],
    sourceNode[x], bpm[x], pitchValue[x], loopEnabled[x], loopStart[x],
    loopLength[x], loopTimeout[x], timers[x], endedQ[x], sounding[x]>>

\* C24: with sync disabled, an operation or callback of one deck (load
\* succeeding or failing, play, pause, seek, pitch, BPM, loop toggle, loop
\* restart timer, ended event) leaves the other deck's playback state,
\* track, offset, anchor, BPM, pitch, loop and pending callbacks unchanged
C24_OtherDeckKept ==
  [][\A d \in Decks :
       \/ DeckState(Other(d))' = DeckState(Other(d))
       \/ syncEnabled
       \/ ~DeckOp(d)]_vars

\* deck A has just been paused while deck B plays with a loop restart pending
C24_Witness ==
  /\ lastOp.op = "pause" /\ lastOp.deck = "A" /\ lastOp.live
  /\ isPlaying["B"] /\ loopTimeout["B"] # 0


\* C25: seek(t) on a loaded deck that is not playing stores the clamped time
\* as the offset and nothing more: the deck stays not playing, no source is
\* started and no loop restart is pending afterwards
C25_SeekWhileStopped ==
  [][\A d \in Decks : \A t \in SeekTimes :
       (Seek(d, t) /\ isLoaded[d] /\ audioBuffer[d] # NoTrack /\ ~isPlaying[d]) =>
         /\ startOffset'[d] = (IF t < 0 THEN 0
                               ELSE IF t > TrackDuration(audioBuffer[d])
                                 THEN TrackDuration(audioBuffer[d]) ELSE t)
         /\ ~isPlaying'[d]
         /\ sourceNode'[d] = NoSource
         /\ loopTimeout'[d] = 0 /\ timers'[d] = {}
         /\ <<pitchValue, bpm, loopEnabled, loopStart, loopLength, audioBuffer>>'
              = <<pitchValue, bpm, loopEnabled, loopStart, loopLength, audioBuffer>>]_vars

\* a paused deck with the loop on has been sought past the end of the track
C25_Witness ==
  /\ lastOp.op = "seek" /\ lastOp.deck = "A" /\ ~lastOp.live
  /\ isLoaded["A"] /\ ~isPlaying["A"] /\ loopEnabled["A"]
  /\ startOffset["A"] = TrackDuration(audioBuffer["A"])


\* a loop restart of deck d: the timer callback or the ended handler of a
\* loop source replaces the deck's source
LoopRestart(d) ==
  /\ lastOp'.deck = d /\ lastOp'.op \in {"timer", "ended"}
  /\ sourceNode'[d].id # sourceNode[d].id

\* the segment deck d is playing has reached its loop end: its restart timer
\* is due or has fired, or its source has run out
SegmentOver(d) ==
  \/ ~sourceNode[d].playing
  \/ \A t \in timers[d] : t.id # loopTimeout[d]
  \/ \E t \in timers[d] : t.id = loopTimeout[d] /\ TimerDue(t, elapsed[d])

\* C26: when a loop restart timer fires on a deck that is playing with the
\* loop enabled, a new source starts at the loop start and the next restart
\* is scheduled, so restarts keep recurring, one per loop duration: a restart
\* that follows a timer's restart only replaces a segment that has reached its
\* loop end
C26_RestartRecursOriginal ==
  [][\A d \in Decks :
       /\ \A t \in timers[d] :
            (TimerFire(d, t) /\ isPlaying[d] /\ loopEnabled[d]) =>
              /\ sourceNode'[d].id # 0 /\ sourceNode'[d].id # sourceNode[d].id
              /\ sourceNode'[d].playing /\ sourceNode'[d].pos = loopStart[d]
              /\ loopTimeout'[d] # 0
              /\ \E u \in timers'[d] :
                   u.id = loopTimeout'[d] /\ ~TimerDue(u, elapsed'[d])
       /\ (LoopRestart(d) /\ lastOp.deck = d /\ lastOp.op = "timer") =>
            SegmentOver(d)]_vars


(***************************************************************************)
(* A playing deck whose loop settings and BPM are changed under it.        *)
(***************************************************************************)
LoopLengths == {1, 2}
LoopBpmValues == {60, 120}

\* setLoopLength(n)
SetLoopLength(d, n) ==
  /\ ~alertShown
  /\ n # loopLength[d]
  /\ loopLength' = [loopLength EXCEPT ![d] = n]
  /\ UNCHANGED <<toolVars, persistVars>>
  /\ lastOp' = Op("setLoopLength", d)
  /\ MixerEffect
  /\ UNCHANGED <<isPlaying, alertShown, refVars, pitchValue, bpm, loopEnabled, loopStart,
                 loadVars, renderedVars>>

NextLoop ==
  \/ \E d \in OpDecks : Play(d)
  \/ \E d \in OpDecks : Pause(d)
  \/ \E d \in OpDecks : \E b \in BOOLEAN : SetLoopEnabled(d, b)
  \/ \E d \in OpDecks : \E n \in LoopLengths : SetLoopLength(d, n)
  \/ \E d \in OpDecks : \E v \in LoopBpmValues : SetBPM(d, v)
  \/ \E d \in OpDecks : \E t \in timers[d] : TimerFire(d, t)
  \/ \E d \in OpDecks : \E e \in endedQ[d] : EndedDeliver(d, e)
  \/ Tick

SpecLoop == InitPair /\ [][NextLoop]_vars

\* the restart timer that is pending for deck d after a step
NewTimer(d, u) == u \in timers'[d] /\ u.id = loopTimeout'[d]

\* C27: a change of loopLength made while playing leaves the scheduled
\* segment alone (source, anchor and pending restart unchanged), and the
\* first restart after it computes its loop duration from the new loopLength
C27_LoopLengthAtRestartOriginal ==
  [][\A d \in Decks :
       /\ \A n \in LoopLengths :
            SetLoopLength(d, n) =>
              <<sourceNode[d], timers[d], loopTimeout[d], startOffset[d], elapsed[d]>>'
                = <<sourceNode[d], timers[d], loopTimeout[d], startOffset[d], elapsed[d]>>
       /\ \A t \in timers[d] :
            (TimerFire(d, t) /\ isPlaying[d] /\ loopEnabled[d] /\ sourceNode[d].id # 0) =>
              \E u \in timers'[d] :
                /\ NewTimer(d, u)
                /\ u.num = LoopDurationBpm([t.cap EXCEPT !.loopLength = loopLength[d]],
                                           TrackDuration(audioBuffer[d]))]_vars


\* C28: disabling the loop cancels the pending restart callback: after
\* setLoopEnabled(false) no callback is pending, and none that was pending
\* before the disabling is still there when the loop is enabled again
C28_DisableCancelsRestartOriginal ==
  [][\A d \in Decks :
       /\ SetLoopEnabled(d, FALSE) => timers'[d] = {}
       /\ (~loopEnabled[d] /\ SetLoopEnabled(d, TRUE)) => timers[d] = {}]_vars


\* a loop-restart decision point of deck d: its timeout callback or the
\* ended handler of one of its sources runs
RestartDecision(d) ==
  \/ \E t \in timers[d] : TimerFire(d, t)
  \/ \E e \in endedQ[d] : EndedDeliver(d, e)

\* C29: after pause() no loop-restart callback is pending, and a restart
\* decision taken while the deck is not playing starts no source and leaves
\* the deck stopped
C29_NoRestartAfterPause ==
  [][\A d \in Decks :
       /\ Pause(d) => (timers'[d] = {} /\ loopTimeout'[d] = 0)
       /\ (~isPlaying[d] /\ RestartDecision(d)) =>
            (sourceNode'[d] = sourceNode[d] /\ ~isPlaying'[d])]_vars

\* a looping deck was paused while its restart was pending, and the ended
\* event of the source that pause() stopped is still to be delivered
C29_Witness ==
  /\ lastOp.op = "pause" /\ lastOp.deck = "A"
  /\ loopEnabled["A"] /\ ~isPlaying["A"]
  /\ timers["A"] = {} /\ sourceNode["A"].id = 0
  /\ \E e \in endedQ["A"] : e.loopHandler


\* a step of deck d in which createAndStartSource runs: play(), or a restart
\* by the timeout callback or by the ended handler
StartsSource(d) ==
  \/ Play(d)
  \/ \E t \in timers[d] :
       TimerFire(d, t) /\ sourceNode[d].id # 0 /\ isPlaying[d] /\ loopEnabled[d]
  \/ \E e \in endedQ[d] :
       EndedDeliver(d, e) /\ e.loopHandler /\ isPlaying[d] /\ loopEnabled[d]

\* C30: setBPM changes only bpm (pitch, the live source and its rate, the
\* anchor, the offset and the pending restart are unchanged), and every loop
\* duration computed after the call uses the new bpm
C30_SetBPMOnlyBpmOriginal ==
  [][\A d \in Decks :
       /\ \A v \in LoopBpmValues :
            SetBPM(d, v) =>
              /\ bpm'[d] = v
              /\ <<pitchValue[d], sourceNode[d], startOffset[d], elapsed[d], timers[d],
                   loopTimeout[d], loopEnabled[d], loopLength[d], isPlaying[d]>>'
                   = <<pitchValue[d], sourceNode[d], startOffset[d], elapsed[d], timers[d],
                       loopTimeout[d], loopEnabled[d], loopLength[d], isPlaying[d]>>
       /\ StartsSource(d) =>
            \A u \in timers'[d] :
              NewTimer(d, u) =>
                /\ u.num = RemainingBpm(startOffset'[d], [u.cap EXCEPT !.bpm = bpm[d]],
                                        TrackDuration(audioBuffer[d]))
                /\ u.den = Rate(u.cap.pitchValue) * bpm[d]]_vars


\* C31: a deck never has more than one source started and not yet stopped or
\* run out, and that one is the source sourceNodeRef refers to
C31_OneSoundingSource ==
  \A d \in Decks :
    /\ sounding[d] \in {0, 1}
    /\ sounding[d] = 1 <=> (sourceNode[d].id # 0 /\ sourceNode[d].playing)

\* a seek on a playing deck has replaced the source: the new one sounds and
\* the ended event of the one it stopped is still queued
C31_Witness ==
  /\ lastOp.op = "seek" /\ lastOp.deck = "A"
  /\ isPlaying["A"] /\ sounding["A"] = 1
  /\ \E e \in endedQ["A"] : ~e.natural /\ e.id # sourceNode["A"].id


\* C32: once a deck's nodes exist each holds the value derived from the stored
\* parameter: EQ gains by the kill rule, the filter's type and cutoff from
\* filterValue, the crossfade gain from crossfaderGain, also for parameters
\* stored before the nodes were created; applying the filter rule again
\* changes nothing
C32_NodesHoldParametersOriginal ==
  \A d \in Decks :
    /\ eqNode[d] # NoNode =>
         eqNode[d][1] = [b \in Bands |-> EqGain(eqKill[d][b], eqValue[d][b])]
    /\ filterNode[d] # NoNode =>
         /\ filterNode[d][1] =
              IF filterValue[d] = 0 THEN [type |-> "lowpass", freq |-> 2000000]
              ELSE IF filterValue[d] < 0
                THEN [type |-> "highpass", freq |-> 2000 + (-filterValue[d]) * 1980]
                ELSE [type |-> "lowpass", freq |-> 2000000 - filterValue[d] * 19980]
         /\ FilterEffect(FilterEffect(filterNode[d], filterValue[d]), filterValue[d])
              = FilterEffect(filterNode[d], filterValue[d])
    /\ crossfaderNode[d] # NoNode => crossfaderNode[d][1] = crossfaderGain[d]


\* C33: pause() on a deck that is not playing leaves the stored offset, the
\* playback state and the track unchanged
C33_PauseOnlyFromPlayingOriginal ==
  [][\A d \in Decks :
       (~isPlaying[d] /\ Pause(d)) =>
         /\ startOffset'[d] = startOffset[d]
         /\ isPlaying'[d] = isPlaying[d]
         /\ audioBuffer'[d] = audioBuffer[d]
         /\ isLoaded'[d] = isLoaded[d]]_vars


\* C34: when the internal analysis produced a tempo, the estimate is the
\* common tempo nearest to the octave-corrected value if that one is less than
\* 5 BPM away, and the octave-corrected value itself, rounded to a tenth, if
\* the nearest is more than 5 BPM away
C34_SnapToNearestOriginal ==
  \A x \in 1..Len(buffer) :
    LET b == buffer[x]
    IN  (~b.empty /\ b.analyzer = AnalyzerFails /\ ~GivesUp(b)) =>
          LET pk == FindPeaksSimple(EnergyValues(b))
              norm == Normalized(pk, QualifyingGaps(pk))
              members == {CommonBPMs[k] : k \in 1..Len(CommonBPMs)}
              dist(m) == Abs(norm[1] - m * norm[2])
              nearest == {m \in members : \A o \in members : dist(m) <= dist(o)}
          IN  /\ (\E m \in nearest : dist(m) < 5 * norm[2]) =>
                   \E m \in nearest : estimate = 10 * m
              /\ (\A m \in nearest : dist(m) > 5 * norm[2]) =>
                   estimate = RoundTenths(norm[1], norm[2])


\* the source play() or seek() has just started for deck d is a loop source
StartsLoop(d) ==
  /\ Play(d) \/ \E t \in SeekTimes : Seek(d, t)
  /\ isPlaying'[d] /\ loopEnabled[d]
  /\ sourceNode'[d].id # 0 /\ sourceNode'[d].loopHandler

\* C35: a loop that play() or seek() starts begins inside the loop window
\* [loopStart, min(loopStart + loopLength * 60 / bpm, duration)], whatever the
\* stored offset was
C35_LoopStartsInWindowOriginal ==
  [][\A d \in Decks :
       StartsLoop(d) =>
         /\ sourceNode'[d].pos >= loopStart[d]
         /\ sourceNode'[d].pos * bpm[d]
              <= loopStart[d] * bpm[d] + LoopDurationBpm(Cap(d), TrackDuration(audioBuffer[d]))]_vars


\* C36: the ended event of a source that is no longer the deck's live source
\* (it was stopped or replaced by seek, play or a loop restart) leaves the
\* playback state, the anchor and the live source unchanged
C36_StaleEndedIgnoredOriginal ==
  [][\A d \in Decks : \A e \in endedQ[d] :
       (EndedDeliver(d, e) /\ e.id # sourceNode[d].id) =>
         /\ isPlaying'[d] = isPlaying[d]
         /\ sourceNode'[d] = sourceNode[d]
         /\ startOffset'[d] = startOffset[d]
         /\ elapsed'[d] = elapsed[d]]_vars


(***************************************************************************)
(* A deck whose loop start is moved to the displayed position.             *)
(***************************************************************************)
\* setLoopStartPoint(): the loop starts at the displayed position of a playing deck
SetLoopStartPoint(d) ==
  /\ ~alertShown
  /\ isPlaying[d]
  /\ loopStart[d] # currentTime[d]
  /\ loopStart' = [loopStart EXCEPT ![d] = currentTime[d]]
  /\ UNCHANGED <<toolVars, persistVars>>
  /\ lastOp' = Op("setLoopStartPoint", d)
  /\ MixerEffect
  /\ UNCHANGED <<isPlaying, alertShown, refVars, pitchValue, bpm, loopEnabled, loopLength,
                 loadVars, renderedVars>>

NextLoopStart ==
  \/ \E d \in OpDecks : Play(d)
  \/ \E d \in OpDecks : Pause(d)
  \/ \E d \in OpDecks : \E t \in PairSeekTimes : Seek(d, t)
  \/ \E d \in OpDecks : \E b \in BOOLEAN : SetLoopEnabled(d, b)
  \/ \E d \in OpDecks : UpdateTime(d)
  \/ \E d \in OpDecks : SetLoopStartPoint(d)
  \/ \E d \in OpDecks : \E t \in timers[d] : TimerFire(d, t)
  \/ \E d \in OpDecks : \E e \in endedQ[d] : EndedDeliver(d, e)
  \/ Tick

SpecLoopStart == InitPair /\ [][NextLoopStart]_vars

\* C37: when a source has just been started on a playing deck, the position
\* the deck reports (stored offset plus elapsed backend time, capped at the
\* duration) is the track position the source was started at, with the loop
\* disabled and enabled alike
C37_ReportedIsPlayedOriginal ==
  \A d \in Decks :
    (isPlaying[d] /\ sourceNode[d].id # 0 /\ elapsed[d] = 0) =>
      CurrentOffset(d) = sourceNode[d].pos


\* ------------------------------------------------------------- persistence

GainValues == {50, 100}
PersistFilterValues == {0, 50}
PersistBands == {"low"}

\* setGain(v) and the effect on [gain]
SetGain(d, v) ==
  /\ ~alertShown
  /\ v # gain[d]
  /\ gain' = [gain EXCEPT ![d] = v]
  /\ lastOp' = Op("setGain", d)
  /\ MixerEffect
  /\ UNCHANGED <<storage, toolVars, isPlaying, alertShown, refVars, cfgVars, loadVars,
                 renderedVars>>

\* React state fileName: the name of the decoded file, else the one the mount
\* read from the snapshot
FileName(d) ==
  IF audioBuffer[d] # NoTrack THEN audioBuffer[d]
  ELSE IF storage[d] # NoSnapshot THEN storage[d][1].fileName ELSE ""

\* the object useDeckAudio hands to usePersistedDeckState
PersistedDeckState(d) ==
  [gain |-> gain[d], eq |-> eqValue[d], eqKill |-> eqKill[d],
   filterValue |-> filterValue[d], bpm |-> bpm[d], pitchValue |-> pitchValue[d],
   currentTime |-> currentTime[d], duration |-> TrackDuration(FileName(d)),
   loopEnabled |-> loopEnabled[d], loopStart |-> loopStart[d],
   loopLength |-> loopLength[d], fileName |-> FileName(d), isLoaded |-> isLoaded[d],
   isPlaying |-> isPlaying[d]]

\* stateToSave: the fields saveDeckState copies out of deckState
StateToSave(deckState) ==
  [gain |-> deckState.gain, eq |-> deckState.eq, eqKill |-> deckState.eqKill,
   filterValue |-> deckState.filterValue, bpm |-> deckState.bpm,
   currentTime |-> deckState.currentTime, duration |-> deckState.duration,
   loopEnabled |-> deckState.loopEnabled, loopStart |-> deckState.loopStart,
   loopLength |-> deckState.loopLength, fileName |-> deckState.fileName,
   isLoaded |-> deckState.isLoaded]

\* the debounced save (only while isLoaded) and the 2 s save while playing
SaveDeckState(d) ==
  /\ ~alertShown
  /\ isLoaded[d] \/ isPlaying[d]
  /\ storage' = [storage EXCEPT ![d] = <<StateToSave(PersistedDeckState(d))>>]
  /\ lastOp' = Op("save", d)
  /\ UNCHANGED <<gain, toolVars, isPlaying, alertShown, refVars, cfgVars, loadVars,
                 unrenderedVars>>

\* savedState.current?.f, undefined read as the default
Saved(snap, f, default) ==
  IF snap # NoSnapshot /\ f \in DOMAIN snap[1] THEN snap[1][f] ELSE default

\* the useState initial values of a mount that read the snapshot snap
Mounted(snap) ==
  [isLoaded |-> Saved(snap, "isLoaded", FALSE),
   currentTime |-> Saved(snap, "currentTime", 0),
   bpm |-> OrElse(Saved(snap, "bpm", 0), InitialBPM),
   eq |-> Saved(snap, "eq", [b \in Bands |-> 0]),
   eqKill |-> Saved(snap, "eqKill", [b \in Bands |-> FALSE]),
   filterValue |-> Saved(snap, "filterValue", 0),
   gain |-> Saved(snap, "gain", InitialGain),
   pitchValue |-> Saved(snap, "pitchValue", 0),
   loopEnabled |-> Saved(snap, "loopEnabled", FALSE),
   loopStart |-> Saved(snap, "loopStart", 0),
   loopLength |-> OrElse(Saved(snap, "loopLength", 0), DefaultLoopLength)]

\* the condition under which the restoreAudioFile effect of a mount does anything
RestoreRuns(snap) ==
  /\ snap # NoSnapshot
  /\ snap[1].fileName # ""
  /\ ~Mounted(snap).isLoaded

\* the page is closed and opened again: both hooks mount from localStorage and
\* their restoreAudioFile effects run, the stored file being the one the
\* snapshot names; the awaits of a restore are taken in the same step
Reopen ==
  LET m == [d \in Decks |-> Mounted(storage[d])]
      run == [d \in Decks |-> RestoreRuns(storage[d])]
      file == [d \in Decks |-> Saved(storage[d], "fileName", "")]
  IN
  /\ isLoaded' = [d \in Decks |-> m[d].isLoaded \/ run[d]]
  /\ audioContext' = run
  /\ audioBuffer' = [d \in Decks |-> IF run[d] THEN file[d] ELSE NoTrack]
  /\ peaks' = [d \in Decks |-> IF run[d] THEN TrackPeaks(file[d]) ELSE << >>]
  /\ startOffset' = [d \in Decks |-> IF run[d] THEN m[d].currentTime ELSE 0]
  /\ currentTime' = [d \in Decks |-> m[d].currentTime]
  /\ bpm' = [d \in Decks |-> m[d].bpm]
  /\ pitchValue' = [d \in Decks |-> m[d].pitchValue]
  /\ gain' = [d \in Decks |-> m[d].gain]
  /\ loopEnabled' = [d \in Decks |-> m[d].loopEnabled]
  /\ loopStart' = [d \in Decks |-> m[d].loopStart]
  /\ loopLength' = [d \in Decks |-> m[d].loopLength]
  /\ eqValue' = [d \in Decks |-> m[d].eq]
  /\ eqKill' = [d \in Decks |-> m[d].eqKill]
  /\ filterValue' = [d \in Decks |-> m[d].filterValue]
  /\ eqNode' = [d \in Decks |->
       IF run[d] THEN <<[b \in Bands |-> EqGain(m[d].eqKill[b], m[d].eq[b])]>> ELSE NoNode]
  /\ filterNode' = [d \in Decks |-> IF run[d] THEN <<NewFilterNode>> ELSE NoNode]
  /\ crossfaderNode' = [d \in Decks |-> IF run[d] THEN <<UnityGain>> ELSE NoNode]
  /\ crossfaderGain' = [d \in Decks |-> CrossfadeCurve(d, crossfader)]
  /\ isPlaying' = [d \in Decks |-> FALSE]
  /\ elapsed' = [d \in Decks |-> 0]
  /\ sourceNode' = [d \in Decks |-> NoSource]
  /\ timers' = [d \in Decks |-> {}]
  /\ loopTimeout' = [d \in Decks |-> 0]
  /\ endedQ' = [d \in Decks |-> {}]
  /\ sounding' = [d \in Decks |-> 0]
  /\ loads' = [d \in Decks |-> << >>]
  /\ lastLoad' = [d \in Decks |-> NoTrack]
  /\ alertShown' = FALSE
  /\ syncSeen' = syncFlag
  /\ buffer' = NoBuffer
  /\ estimate' = NoEstimate
  /\ tapTimes' = [d \in Decks |-> << >>]
  /\ calculatedBPM' = [d \in Decks |-> NoBPM]
  /\ UNCHANGED <<storage, crossfader, syncEnabled, syncFlag>>
  /\ lastOp' = NoOp("reopen")

\* the controls of one deck, the debounced save and the reopening of the page
NextPersist ==
  \/ \E d \in OpDecks : \E p \in PairPitchValues \cup {0} : SetPitchValue(d, p)
  \/ \E d \in OpDecks : \E v \in GainValues : SetGain(d, v)
  \/ \E d \in OpDecks : \E b \in PersistBands : \E v \in EqValues : SetEq(d, b, v)
  \/ \E d \in OpDecks : \E b \in PersistBands : KillToggle(d, b)
  \/ \E d \in OpDecks : \E v \in PersistFilterValues : SetFilterValue(d, v)
  \/ \E d \in OpDecks : \E v \in PairBpmValues \cup {60} : SetBPM(d, v)
  \/ \E d \in OpDecks : \E n \in LoopLengths : SetLoopLength(d, n)
  \/ \E d \in OpDecks : SaveDeckState(d)
  \/ Reopen

SpecPersist == InitPair /\ [][NextPersist]_vars

\* C39: saveDeckState writes every parameter the deck hands to the persistence
\* hook, the pitch value included, into the snapshot, and a page reopened right
\* after a save of a deck gives that deck the pitch, gain, EQ, kill flags,
\* filter, BPM and loop values it had
C39_SnapshotRoundTripOriginal ==
  [][\A d \in Decks :
       /\ SaveDeckState(d) =>
            DOMAIN PersistedDeckState(d) \subseteq DOMAIN storage'[d][1]
       /\ (Reopen /\ lastOp.op = "save" /\ lastOp.deck = d) =>
            /\ pitchValue'[d] = pitchValue[d]
            /\ gain'[d] = gain[d]
            /\ eqValue'[d] = eqValue[d]
            /\ eqKill'[d] = eqKill[d]
            /\ filterValue'[d] = filterValue[d]
            /\ bpm'[d] = bpm[d]
            /\ loopEnabled'[d] = loopEnabled[d]
            /\ loopStart'[d] = loopStart[d]
            /\ loopLength'[d] = loopLength[d]]_vars


\* one deck is played, sought and saved, and the page is reopened
NextReopen ==
  \/ \E d \in OpDecks : Play(d)
  \/ \E d \in OpDecks : Pause(d)
  \/ \E d \in OpDecks : \E t \in SeekTimes : Seek(d, t)
  \/ \E d \in OpDecks : UpdateTime(d)
  \/ \E d \in OpDecks : \E e \in endedQ[d] : EndedDeliver(d, e)
  \/ Tick
  \/ \E d \in OpDecks : SaveDeckState(d)
  \/ Reopen

SpecReopen == InitPair /\ [][NextReopen]_vars

\* the timers of the auto-save effects fire
FairReopen == \A d \in OpDecks : WF_vars(SaveDeckState(d))

SpecReopenFair == SpecReopen /\ FairReopen

\* the page was just reopened with a snapshot of deck d that names a file
ReopenedWithFile(d) ==
  /\ lastOp.op = "reopen"
  /\ Saved(storage[d], "fileName", "") # ""

\* C38: a deck reopened with a saved snapshot that names a stored file
\* eventually is loaded, holds the decoded buffer of that file and is anchored
\* at the saved position
C38_RestoreEventuallyOriginal ==
  \A d \in Decks :
    [](ReopenedWithFile(d) =>
         <>(/\ isLoaded[d]
            /\ audioBuffer[d] = Saved(storage[d], "fileName", "")
            /\ startOffset[d] = Saved(storage[d], "currentTime", 0)))

====
